---- MODULE Spec2Model ----
(***************************************************************************)
(* Model of src/main.py, the Yahoo news scraper: discovery of article URLs *)
(* into the primary sheet ("Yahoo"), the body/comment detail pass that     *)
(* also maintains the secondary sheet ("Comments"), and the batched        *)
(* classification pass.                                                    *)
(*                                                                         *)
(* Strings are finite sequences of tokens.  The token WS stands for a      *)
(* whitespace character, so that str.strip() (to_str_safe) is a real       *)
(* conversion and not the identity; the token ARTICLE_PREFIX stands for    *)
(* the literal "https://news.yahoo.co.jp/articles/" at the start of a      *)
(* string.  A sheet stores the cells it is given and returns them          *)
(* unchanged.                                                              *)
(***************************************************************************)
EXTENDS Naturals, Sequences, FiniteSets

VARIABLES
    yahoo,            \* data rows of the primary sheet; yahoo[i] is sheet row i+1
    comments,         \* all rows of the secondary sheet, header row included
    run,              \* number of the current invocation of main()
    kw,               \* index of the keyword main() is processing (step 1)
    pc,               \* position of main()
    \* locals of fetch_details_and_update
    values,           \* data_rows: the primary sheet as read at the start
    comments_len,     \* len(comments_values)
    comments_url_to_row,
    idx,              \* position in data_rows of the row being processed
    page_idx,
    new_body_pages,
    body_changed,
    all_comments,     \* len(all_comments)
    page_strings,
    \* locals of analyze_and_update_sheet
    targets,
    batch_start,      \* i of the batch loop
    attempt,          \* attempt of analyze_with_gemini_batch
    \* observation of the run (not program state)
    body_fetches,     \* fetch_article_body_page calls for the current row
    comment_fetches,  \* fetch_comments_page calls for the current row
    unwritten,        \* rows of the batches handled so far in the latest
                      \* classification pass that received no write
    log,              \* what the last step did
    \* a helper function taken by itself
    call              \* its arguments and, once it has returned, its result

sheets == <<yahoo, comments>>
detail_locals == <<values, comments_len, comments_url_to_row, idx, page_idx,
                   new_body_pages, body_changed, all_comments, page_strings>>
analyze_locals == <<targets, batch_start, attempt>>
observed == <<body_fetches, comment_fetches, unwritten, log>>
vars == <<yahoo, comments, run, kw, pc, detail_locals, analyze_locals, observed, call>>

----------------------------------------------------------------------------
(* Bounds of the model *)

MaxRows == 2        \* the primary sheet holds at most this many data rows
MaxRuns == 2        \* invocations of main() in one behaviour
NKeywords == 2      \* keywords in keywords.txt
MaxItems == 2       \* entries in one classifier response
SiteBodyPages == 1  \* body pages of an article that hold text
SiteCommentPages == 1 \* comment pages of an article that hold comments

\* GEMINI_MAX_BATCH_SIZE is 100 in main.py (line 95); the model runs it at 2 so
\* that a sheet of MaxRows rows is split into more than one batch
GEMINI_MAX_BATCH_SIZE == 2

(* Program constants *)

MAX_BODY_PAGES == 10
MAX_COMMENT_PAGES == 10
MAX_COMMENTS_TOTAL == 3000

----------------------------------------------------------------------------
(* Strings *)

WS == " "
EMPTY == <<>>
ARTICLE_PREFIX == "https://news.yahoo.co.jp/articles/"
OTHER_HTTP == "http://"
\* the literal written to body page 1 when page 1 yields no text (main.py line 636)
BODY_UNAVAILABLE == <<"body-unavailable">>

RECURSIVE LStrip(_)
LStrip(s) == IF s # <<>> /\ Head(s) = WS THEN LStrip(Tail(s)) ELSE s

RECURSIVE RStrip(_)
RStrip(s) == IF s # <<>> /\ s[Len(s)] = WS THEN RStrip(SubSeq(s, 1, Len(s) - 1)) ELSE s

\* to_str_safe on a cell value (a string): str(x).strip()
to_str_safe(x) == RStrip(LStrip(x))

\* s.startswith("https://news.yahoo.co.jp/articles/")
IsArticleUrl(s) == s # <<>> /\ Head(s) = ARTICLE_PREFIX

\* s.startswith("http")
StartsWithHttp(s) == s # <<>> /\ Head(s) \in {ARTICLE_PREFIX, OTHER_HTTP}

----------------------------------------------------------------------------
(* Sheets *)

EmptyBody == [i \in 1..MAX_BODY_PAGES |-> EMPTY]
EmptyCls == [i \in 1..5 |-> EMPTY]

\* the row write_news_list_to_source builds for a discovered article
NewRow(a) ==
    [url |-> a.URL, title |-> a.title, posted |-> a.posted, source |-> a.source,
     body |-> EmptyBody, count |-> EMPTY, cls |-> EmptyCls]

\* existing_urls of write_news_list_to_source
ExistingUrls(sheet) ==
    { to_str_safe(sheet[i].url) : i \in { j \in 1..Len(sheet) : StartsWithHttp(to_str_safe(sheet[j].url)) } }

\* new_rows of write_news_list_to_source
NewRows(sheet, articles) ==
    LET keep(a) == a.URL \notin ExistingUrls(sheet)
        RECURSIVE build(_)
        build(as) == IF as = <<>> THEN <<>>
                     ELSE IF keep(Head(as)) THEN <<NewRow(Head(as))>> \o build(Tail(as))
                     ELSE build(Tail(as))
    IN build(articles)

----------------------------------------------------------------------------
(* Step 1 of main(): discovery *)

\* write_news_list_to_source(gc, articles), called by main() for keyword kw with
\* the article list get_yahoo_news_with_selenium returned
write_news_list_to_source(articles) ==
    /\ pc = "discover"
    /\ Len(yahoo) + Len(NewRows(yahoo, articles)) <= MaxRows
    /\ yahoo' = yahoo \o NewRows(yahoo, articles)
    /\ log' = [step |-> "discover", articles |-> articles, before |-> yahoo]
    /\ IF kw < NKeywords
         THEN kw' = kw + 1 /\ pc' = pc
         ELSE kw' = kw /\ pc' = "details"
    /\ UNCHANGED <<call, comments, run, detail_locals, analyze_locals, body_fetches, comment_fetches, unwritten>>

----------------------------------------------------------------------------
(* Step 2 of main(): fetch_details_and_update *)

\* a rendered comment page block: n enumerated comments, with or without the
\* "over 3000 comments, truncated" line of line 671; the empty string has n = 0
Block(n, marker) == [n |-> n, marker |-> marker]
EmptyBlock == Block(0, FALSE)
EmptyPageStrings == [i \in 1..MAX_COMMENT_PAGES |-> EmptyBlock]

\* comments_url_to_row as built from comments_values: a later row of the same
\* URL replaces an earlier one
UrlToRow(sheet) ==
    LET rows(u) == { j \in 2..Len(sheet) : /\ StartsWithHttp(to_str_safe(sheet[j].url))
                                           /\ to_str_safe(sheet[j].url) = u }
        urls == { to_str_safe(sheet[j].url) :
                    j \in { k \in 2..Len(sheet) : StartsWithHttp(to_str_safe(sheet[k].url)) } }
    IN [u \in urls |-> CHOOSE j \in rows(u) : \A k \in rows(u) : k <= j]

\* lines 584-602: read both sheets, build comments_url_to_row
FetchDetailsStart ==
    /\ pc = "details"
    /\ IF Len(yahoo) = 0
         THEN /\ pc' = "analyze"
              /\ UNCHANGED detail_locals
         ELSE /\ pc' = "row"
              /\ values' = yahoo
              /\ comments_len' = Len(comments)
              /\ comments_url_to_row' = UrlToRow(comments)
              /\ idx' = 1
              /\ UNCHANGED <<page_idx, new_body_pages, body_changed, all_comments, page_strings>>
    /\ log' = [step |-> "details"]
    /\ UNCHANGED <<call, sheets, run, kw, analyze_locals, body_fetches, comment_fetches, unwritten>>

\* faulty variant of the gate: every row is fetched again
NeedBodyAlways(row) == TRUE

\* need_body of line 619
NeedBody(row) == to_str_safe(row.body[1]) = EMPTY

\* lines 604-626: the head of one iteration of the row loop, or its end
RowBegin ==
    /\ pc = "row"
    /\ IF idx > Len(values)
         THEN /\ pc' = "analyze"
              /\ values' = <<>> /\ comments_len' = 0 /\ comments_url_to_row' = <<>>
              /\ idx' = 0 /\ page_idx' = 0 /\ new_body_pages' = <<>>
              /\ body_changed' = FALSE /\ all_comments' = 0 /\ page_strings' = <<>>
              /\ log' = [step |-> "details_end"]
              /\ UNCHANGED <<body_fetches, comment_fetches>>
         ELSE IF ~IsArticleUrl(to_str_safe(values[idx].url))
         THEN /\ idx' = idx + 1
              /\ log' = [step |-> "row_skipped", row |-> idx]
              /\ UNCHANGED <<pc, values, comments_len, comments_url_to_row, page_idx,
                             new_body_pages, body_changed, all_comments, page_strings,
                             body_fetches, comment_fetches>>
         ELSE /\ new_body_pages' = values[idx].body
              /\ body_changed' = FALSE
              /\ page_idx' = 1
              /\ all_comments' = 0
              /\ page_strings' = EmptyPageStrings
              /\ pc' = IF NeedBody(values[idx]) THEN "body" ELSE "comments"
              /\ body_fetches' = 0 /\ comment_fetches' = 0
              /\ log' = [step |-> "row", row |-> idx, need_body |-> NeedBody(values[idx])]
              /\ UNCHANGED <<values, comments_len, comments_url_to_row, idx>>
    /\ UNCHANGED <<call, sheets, run, kw, analyze_locals, unwritten>>

\* new_body_pages after the body loop has seen `text` for page page_idx
\* (lines 634-643)
BodyPagesAfter(pages, p, text) ==
    IF text = EMPTY
      THEN IF p = 1 THEN [pages EXCEPT ![1] = BODY_UNAVAILABLE] ELSE pages
      ELSE IF to_str_safe(pages[p]) # text THEN [pages EXCEPT ![p] = text] ELSE pages

\* body_changed after that iteration
BodyChangedAfter(changed, pages, p, text) ==
    IF text = EMPTY
      THEN changed \/ p = 1
      ELSE changed \/ to_str_safe(pages[p]) # text

\* whether the body loop ends with this iteration (break, or range exhausted)
BodyLoopEnds(p, text) == text = EMPTY \/ p = MAX_BODY_PAGES

\* lines 629-652: one iteration of the body loop, `text` being what
\* fetch_article_body_page returned; the iteration that ends the loop also
\* writes E..N when body_changed
FetchBodyPage(text) ==
    /\ pc = "body"
    /\ body_fetches' = body_fetches + 1
    /\ new_body_pages' = BodyPagesAfter(new_body_pages, page_idx, text)
    /\ body_changed' = BodyChangedAfter(body_changed, new_body_pages, page_idx, text)
    /\ IF BodyLoopEnds(page_idx, text)
         THEN /\ pc' = "comments"
              /\ page_idx' = 1
              /\ yahoo' = IF body_changed'
                            THEN [yahoo EXCEPT ![idx].body = new_body_pages']
                            ELSE yahoo
              /\ log' = [step |-> "body_done", row |-> idx, wrote |-> body_changed',
                         stopped_at |-> page_idx, last_empty |-> (text = EMPTY),
                         before |-> values[idx].body]
         ELSE /\ pc' = pc
              /\ page_idx' = page_idx + 1
              /\ yahoo' = yahoo
              /\ log' = [step |-> "body_page", row |-> idx]
    /\ UNCHANGED <<call, comments, run, kw, values, comments_len, comments_url_to_row, idx,
                   all_comments, page_strings, analyze_locals, comment_fetches, unwritten>>

\* the part of the fetched page that is rendered into its block when the page
\* would take the total over MAX_COMMENTS_TOTAL (lines 666-670): the page is cut
\* to `remaining` only when remaining > 0
RenderedWhenOver(total, n) ==
    LET remaining == MAX_COMMENTS_TOTAL - total
    IN IF remaining > 0 THEN remaining ELSE n

\* len(all_comments) after the comment loop has seen a page of n comments
AllCommentsAfter(total, n) ==
    IF n = 0 THEN total
    ELSE IF total + n > MAX_COMMENTS_TOTAL
      THEN (IF MAX_COMMENTS_TOTAL - total > 0 THEN MAX_COMMENTS_TOTAL ELSE total)
      ELSE total + n

\* page_strings after that iteration (lines 662-676)
PageStringsAfter(strings, p, total, n) ==
    IF n = 0 THEN strings
    ELSE IF total + n > MAX_COMMENTS_TOTAL
      THEN [strings EXCEPT ![p] = Block(RenderedWhenOver(total, n), TRUE)]
      ELSE [strings EXCEPT ![p] = Block(n, FALSE)]

\* whether the comment loop ends with this iteration
CommentLoopEnds(p, total, n) ==
    n = 0 \/ total + n > MAX_COMMENTS_TOTAL \/ p = MAX_COMMENT_PAGES

\* faulty variant: the record keeps the count the row held before
BaseValsOldCount(row, count, strings) ==
    [url |-> to_str_safe(row.url), title |-> to_str_safe(row.title),
     posted |-> to_str_safe(row.posted), source |-> to_str_safe(row.source),
     count |-> row.count, pages |-> strings]

\* base_vals of line 687
BaseVals(row, count, strings) ==
    [url |-> to_str_safe(row.url), title |-> to_str_safe(row.title),
     posted |-> to_str_safe(row.posted), source |-> to_str_safe(row.source),
     count |-> count, pages |-> strings]

BlankCommentRow ==
    [url |-> EMPTY, title |-> EMPTY, posted |-> EMPTY, source |-> EMPTY,
     count |-> EMPTY, pages |-> EmptyPageStrings]

\* comments_ws.update of one whole row; rows between the end of the data and
\* the updated row stay blank
UpdateCommentRow(sheet, r, vals) ==
    [j \in 1..(IF r > Len(sheet) THEN r ELSE Len(sheet)) |->
        IF j = r THEN vals ELSE IF j <= Len(sheet) THEN sheet[j] ELSE BlankCommentRow]

\* new_row_index of line 699
NewRowIndex(len, map) == len + 1 + Cardinality(DOMAIN map)

\* lines 690-700: the secondary sheet after the comment record is written
CommentsSheetAfter(sheet, map, vals) ==
    IF vals.url \in DOMAIN map
      THEN UpdateCommentRow(sheet, map[vals.url], vals)
      ELSE Append(sheet, vals)

\* comments_url_to_row after that write
UrlToRowAfter(map, len, url) ==
    IF url \in DOMAIN map
      THEN map
      ELSE [u \in DOMAIN map \cup {url} |-> IF u = url THEN NewRowIndex(len, map) ELSE map[u]]

\* lines 655-702: one iteration of the comment loop, n being the number of
\* comments fetch_comments_page returned; the iteration that ends the loop also
\* writes column O and the comment record, and moves to the next row
FetchCommentsPage(n) ==
    /\ pc = "comments"
    /\ comment_fetches' = comment_fetches + 1
    /\ all_comments' = AllCommentsAfter(all_comments, n)
    /\ page_strings' = PageStringsAfter(page_strings, page_idx, all_comments, n)
    /\ IF CommentLoopEnds(page_idx, all_comments, n)
         THEN LET vals == BaseVals(values[idx], <<all_comments'>>, page_strings')
              IN /\ yahoo' = [yahoo EXCEPT ![idx].count = <<all_comments'>>]
                 /\ comments' = CommentsSheetAfter(comments, comments_url_to_row, vals)
                 /\ comments_url_to_row' = UrlToRowAfter(comments_url_to_row, comments_len, vals.url)
                 /\ log' = [step |-> "comments_done", row |-> idx, url |-> vals.url,
                            appended |-> (vals.url \notin DOMAIN comments_url_to_row),
                            at |-> IF vals.url \in DOMAIN comments_url_to_row
                                     THEN comments_url_to_row[vals.url]
                                     ELSE Len(comments) + 1,
                            truncated |-> (n # 0 /\ all_comments + n > MAX_COMMENTS_TOTAL),
                            stopped_at |-> page_idx,
                            prior |-> all_comments]
                 /\ idx' = idx + 1
                 /\ pc' = "row"
                 /\ page_idx' = page_idx
         ELSE /\ page_idx' = page_idx + 1
              /\ log' = [step |-> "comments_page", row |-> idx]
              /\ UNCHANGED <<yahoo, comments, comments_url_to_row, idx, pc>>
    /\ UNCHANGED <<call, run, kw, values, comments_len, new_body_pages, body_changed,
                   analyze_locals, body_fetches, unwritten>>

----------------------------------------------------------------------------
(* Step 3 of main(): analyze_and_update_sheet and analyze_with_gemini_batch *)

NOT_AVAILABLE == <<"N/A">>
MAX_RETRIES == 3

\* faulty variant: a row is passed over once its first classification cell
\* is filled
IsTargetFirstCell(row) ==
    /\ IsArticleUrl(to_str_safe(row.url))
    /\ \E p \in 1..MAX_BODY_PAGES :
          to_str_safe(row.body[p]) # EMPTY /\ row.body[p] # BODY_UNAVAILABLE
    /\ to_str_safe(row.cls[1]) = EMPTY

\* lines 802-821: whether a row of the sheet is a classification target
IsTarget(row) ==
    /\ IsArticleUrl(to_str_safe(row.url))
    /\ \E p \in 1..MAX_BODY_PAGES :
          to_str_safe(row.body[p]) # EMPTY /\ row.body[p] # BODY_UNAVAILABLE
    /\ \E c \in 1..5 : to_str_safe(row.cls[c]) = EMPTY

\* lines 797-830: targets, in row order; row_index is the position in data_rows
RECURSIVE TargetsFrom(_, _)
TargetsFrom(sheet, j) ==
    IF j > Len(sheet) THEN <<>>
    ELSE IF IsTarget(sheet[j])
      THEN <<[row_index |-> j, url |-> to_str_safe(sheet[j].url)]>> \o TargetsFrom(sheet, j + 1)
      ELSE TargetsFrom(sheet, j + 1)

\* faulty variant: a batch after the first begins one target early
BatchFromPrevious(ts, i) ==
    SubSeq(ts, IF i = 0 THEN 1 ELSE i,
           IF i + GEMINI_MAX_BATCH_SIZE < Len(ts) THEN i + GEMINI_MAX_BATCH_SIZE ELSE Len(ts))

\* batch of line 840: targets[i : i + GEMINI_MAX_BATCH_SIZE]
Batch(ts, i) ==
    SubSeq(ts, i + 1, IF i + GEMINI_MAX_BATCH_SIZE < Len(ts) THEN i + GEMINI_MAX_BATCH_SIZE ELSE Len(ts))

\* lines 788-837: read the sheet and collect the targets
AnalyzeStart ==
    /\ pc = "analyze"
    /\ targets' = TargetsFrom(yahoo, 1)
    /\ batch_start' = 0
    /\ attempt' = 0
    /\ pc' = IF TargetsFrom(yahoo, 1) = <<>> THEN "done" ELSE "dispatch"
    /\ log' = [step |-> "collect"]
    /\ UNCHANGED <<call, sheets, run, kw, detail_locals, body_fetches, comment_fetches, unwritten>>

(* What one call of generate_content does, as `resp`:                      *)
(*   kind "ResourceExhausted"    the call raises ResourceExhausted         *)
(*   kind "error"                the call raises another exception         *)
(*   kind "invalid_json"         resp.text is not JSON                     *)
(*   kind "other_json"           JSON, neither a list nor a dict that has  *)
(*                               the key "results"                         *)
(*   kind "list"                 a JSON list, its elements in items        *)
(*   kind "results_list"         {"results": [...]}, elements in items     *)
(*   kind "results_scalar"       {"results": v}, v null or a number        *)
(*   kind "results_string"       {"results": v}, v a string or an object   *)
(* An element of items is [isdict, index, fields]: index is               *)
(* [kind |-> "int", val |-> n], or of kind "missing" or "malformed";       *)
(* fields[c] is [present, val] for the five classification keys.          *)

\* faulty variant: the quota error handled like any other exception
OutcomeQuotaRetried(resp) ==
    IF resp.kind \in {"ResourceExhausted", "error", "results_scalar"} THEN "exception"
    ELSE "return"

\* how the call ends inside analyze_with_gemini_batch: "quota" is the
\* re-raise of lines 769-771, "exception" the handler of lines 772-779 (which
\* also receives the TypeError of iterating a null or a number at line 754,
\* the loop being inside the try of line 731), "return" a return of `out`
Outcome(resp) ==
    IF resp.kind = "ResourceExhausted" THEN "quota"
    ELSE IF resp.kind \in {"error", "results_scalar"} THEN "exception"
    ELSE "return"

\* `out` of lines 753-767 for a response that raises nothing
Results(resp) ==
    IF resp.kind \in {"list", "results_list"}
      THEN SelectSeq(resp.items, LAMBDA it : it.isdict)
      ELSE <<>>

\* int(r.get("index", 0)) of lines 852-855, on item.get("index", 0) of line 759
IndexInt(it) == IF it.index.kind = "int" THEN it.index.val ELSE 0

\* faulty variant: a missing field leaves a blank
FieldOrBlank(fv) == fv.val

\* item.get(key, "N/A") of lines 760-764
FieldOrDefault(fv) == IF fv.present THEN fv.val ELSE NOT_AVAILABLE

\* result_by_index of lines 850-856: a later entry replaces an earlier one
ResultByIndex(results) ==
    LET keys == { IndexInt(results[k]) : k \in 1..Len(results) }
        last(n) == CHOOSE k \in 1..Len(results) :
                      /\ IndexInt(results[k]) = n
                      /\ \A m \in 1..Len(results) : IndexInt(results[m]) = n => m <= k
    IN [n \in keys |-> results[last(n)]]

\* the five cells of the write of lines 864-874
ClsFrom(r) == [c \in 1..5 |-> FieldOrDefault(r.fields[c])]

\* faulty variant: the batch looked up by 1-based position
WrittenPositionsOneBased(batch, results) ==
    { p \in 0..(Len(batch) - 1) : (p + 1) \in DOMAIN ResultByIndex(results) }

\* local positions (0-based) of the batch that receive a write (lines 858-862)
WrittenPositions(batch, results) ==
    { p \in 0..(Len(batch) - 1) : p \in DOMAIN ResultByIndex(results) }

\* faulty variant: the write covers the row from column B on and blanks the
\* metadata cells
SheetAfterBatchFromB(sheet, batch, results) ==
    LET pos(j) == { p \in WrittenPositions(batch, results) : batch[p + 1].row_index = j }
    IN [j \in 1..Len(sheet) |->
          IF pos(j) = {} THEN sheet[j]
          ELSE [sheet[j] EXCEPT !.title = EMPTY, !.posted = EMPTY, !.source = EMPTY,
                                !.cls = ClsFrom(ResultByIndex(results)[CHOOSE p \in pos(j) : TRUE])]]

\* the primary sheet after the writes of one batch
SheetAfterBatch(sheet, batch, results) ==
    LET pos(j) == { p \in WrittenPositions(batch, results) : batch[p + 1].row_index = j }
    IN [j \in 1..Len(sheet) |->
          IF pos(j) = {} THEN sheet[j]
          ELSE [sheet[j] EXCEPT !.cls = ClsFrom(ResultByIndex(results)[CHOOSE p \in pos(j) : TRUE])]]

\* rows of the sheet written for the batch
WrittenRows(batch, results) ==
    { batch[p + 1].row_index : p \in WrittenPositions(batch, results) }

\* faulty variant: one attempt more than MAX_RETRIES
MayRetryOnceMore(a) == a < MAX_RETRIES

\* line 773: the failed attempt `a` (0-based) is followed by another
MayRetry(a) == a < MAX_RETRIES - 1

\* the indices the entries of a response carry
IndicesOf(resp) ==
    { resp.items[k].index.val :
        k \in { m \in 1..Len(resp.items) :
                  resp.items[m].isdict /\ resp.items[m].index.kind = "int" } }

\* every entry of the response is an object with an integer index
AllIndexed(resp) ==
    \A k \in 1..Len(resp.items) : resp.items[k].isdict /\ resp.items[k].index.kind = "int"

\* lines 839-876 with 729-780: one call of generate_content for the current
\* batch and everything that follows it up to the next call
Dispatch(resp) ==
    /\ pc = "dispatch"
    /\ LET batch == Batch(targets, batch_start)
           more == batch_start + GEMINI_MAX_BATCH_SIZE < Len(targets)
           rows == { batch[k].row_index : k \in 1..Len(batch) }
           seen == IF attempt = 0 THEN {} ELSE log.seen
           note(what, written) ==
               [step |-> what, kind |-> resp.kind, batch |-> batch,
                batch_start |-> batch_start, written |-> written,
                indices |-> IndicesOf(resp), all_indexed |-> AllIndexed(resp),
                before |-> yahoo, calls |-> attempt + 1, more |-> more,
                seen |-> seen \cup {resp.kind}]
           finish(results, what) ==
               /\ yahoo' = SheetAfterBatch(yahoo, batch, results)
               /\ log' = note(what, WrittenRows(batch, results))
               /\ unwritten' = (IF batch_start = 0 THEN {} ELSE unwritten)
                                  \cup (rows \ WrittenRows(batch, results))
               /\ attempt' = 0
               /\ IF more
                    THEN batch_start' = batch_start + GEMINI_MAX_BATCH_SIZE
                         /\ pc' = pc /\ targets' = targets
                    ELSE batch_start' = 0 /\ pc' = "done" /\ targets' = <<>>
       IN CASE Outcome(resp) = "quota" ->
                 /\ pc' = "done"
                 /\ targets' = <<>> /\ batch_start' = 0 /\ attempt' = 0
                 /\ log' = note("quota", {})
                 /\ UNCHANGED <<yahoo, unwritten>>
            [] Outcome(resp) = "exception" ->
                 IF MayRetry(attempt)
                   THEN /\ attempt' = attempt + 1
                        /\ log' = note("retry", {})
                        /\ UNCHANGED <<yahoo, pc, targets, batch_start, unwritten>>
                   ELSE finish(<<>>, "abandoned")
            [] OTHER -> finish(Results(resp), "reconciled")
    /\ UNCHANGED <<call, comments, run, kw, detail_locals, body_fetches, comment_fetches>>

----------------------------------------------------------------------------
(* The next invocation of main() *)

StartRun ==
    /\ pc = "done"
    /\ run < MaxRuns
    /\ run' = run + 1
    /\ kw' = 1
    /\ pc' = "discover"
    /\ log' = [step |-> "start"]
    /\ UNCHANGED <<call, sheets, detail_locals, analyze_locals, body_fetches, comment_fetches, unwritten>>

----------------------------------------------------------------------------
(* Inputs *)

UrlA == <<ARTICLE_PREFIX, "a">>
UrlB == <<ARTICLE_PREFIX, "b">>
\* an href that ends in a blank, as the anchor pass of extract_article_urls
\* returns it
UrlAws == <<ARTICLE_PREFIX, "a", WS>>
UrlOther == <<OTHER_HTTP, "x">>

TEXT == <<"text">>
OLD == <<"old">>

\* the article record get_yahoo_news_with_selenium builds for a URL
Article(u) == [URL |-> u, title |-> <<"title">>, posted |-> <<"posted">>, source |-> <<"source">>]

\* article lists: extract_article_urls returns no string twice
Listings ==
    LET U == {UrlA, UrlB, UrlAws}
    IN {<<>>} \cup { <<Article(u)>> : u \in U }
              \cup { <<Article(u), Article(v)>> : <<u, v>> \in { w \in U \X U : w[1] # w[2] } }

\* rows a primary sheet may hold before a run
FreshRow(u) == NewRow(Article(u))
FetchedRow(u) == [FreshRow(u) EXCEPT !.body = [EmptyBody EXCEPT ![1] = TEXT, ![2] = OLD],
                                     !.count = <<1>>]
UnavailableRow(u) == [FreshRow(u) EXCEPT !.body = [EmptyBody EXCEPT ![1] = BODY_UNAVAILABLE]]
StaleRow(u) == [FreshRow(u) EXCEPT !.body = [EmptyBody EXCEPT ![3] = OLD]]

InitYahoo ==
    { <<>>, <<FetchedRow(UrlA)>>, <<StaleRow(UrlB)>>, <<UnavailableRow(UrlB)>>,
      <<FreshRow(UrlOther), FreshRow(UrlA)>> }

CommentsHeader ==
    [url |-> <<"URL">>, title |-> <<"title">>, posted |-> <<"posted">>, source |-> <<"source">>,
     count |-> EMPTY, pages |-> EmptyPageStrings]
CommentRecord(u) == BaseVals(FreshRow(u), <<1>>, [EmptyPageStrings EXCEPT ![1] = Block(1, FALSE)])

\* the secondary sheet before a run: blank, header only, or with a record
InitComments == { <<>>, <<CommentsHeader>>, <<CommentsHeader, CommentRecord(UrlB)>> }

Present(v) == [present |-> TRUE, val |-> v]
Absent == [present |-> FALSE, val |-> EMPTY]
AllFields == [c \in 1..5 |-> Present(<<"v">>)]
IntIndex(n) == [kind |-> "int", val |-> n]
Entry(index, fields) == [isdict |-> TRUE, index |-> index, fields |-> fields]
NonDict == [isdict |-> FALSE, index |-> [kind |-> "missing", val |-> 0], fields |-> AllFields]

Entries ==
    { Entry(IntIndex(n), AllFields) : n \in 0..GEMINI_MAX_BATCH_SIZE }
      \cup { Entry([kind |-> "missing", val |-> 0], AllFields),
             Entry([kind |-> "malformed", val |-> 0], AllFields),
             Entry(IntIndex(1), [AllFields EXCEPT ![1] = Absent]),
             Entry(IntIndex(0), [AllFields EXCEPT ![2] = Present(EMPTY)]),
             NonDict }

EntryLists == UNION { [1..n -> Entries] : n \in 0..MaxItems }

Responses ==
    { [kind |-> k, items |-> <<>>] :
        k \in {"ResourceExhausted", "error", "invalid_json", "other_json",
               "results_scalar", "results_string"} }
      \cup { [kind |-> k, items |-> l] : k \in {"list", "results_list"}, l \in EntryLists }

----------------------------------------------------------------------------
(* The run of main(), MaxRuns times *)

\* no helper function is taken by itself
NoCall == [fn |-> "none"]

InitLocals ==
    /\ values = <<>> /\ comments_len = 0 /\ comments_url_to_row = <<>>
    /\ idx = 0 /\ page_idx = 0 /\ new_body_pages = <<>> /\ body_changed = FALSE
    /\ all_comments = 0 /\ page_strings = <<>>
    /\ targets = <<>> /\ batch_start = 0 /\ attempt = 0
    /\ body_fetches = 0 /\ comment_fetches = 0 /\ unwritten = {}
    /\ log = [step |-> "start"]

Init ==
    /\ yahoo \in InitYahoo
    /\ comments \in InitComments
    /\ run = 1 /\ kw = 1 /\ pc = "discover"
    /\ InitLocals
    /\ call = NoCall

\* what the site and the classifier may answer in a run of the whole program
BodyTexts(p) == IF p <= SiteBodyPages THEN {EMPTY, TEXT} ELSE {EMPTY}
CommentCounts(p) == IF p <= SiteCommentPages THEN {0, 1} ELSE {0}
IndexedLists == UNION { [1..n -> { Entry(IntIndex(k), AllFields) : k \in 0..GEMINI_MAX_BATCH_SIZE }] : n \in 0..MaxItems }
RunResponses ==
    { [kind |-> k, items |-> <<>>] : k \in {"ResourceExhausted", "error", "other_json"} }
      \cup { [kind |-> "list", items |-> l] : l \in IndexedLists }

Next ==
    \/ \E articles \in Listings : write_news_list_to_source(articles)
    \/ FetchDetailsStart
    \/ RowBegin
    \/ \E text \in BodyTexts(page_idx) : FetchBodyPage(text)
    \/ \E n \in CommentCounts(page_idx) : FetchCommentsPage(n)
    \/ AnalyzeStart
    \/ \E resp \in RunResponses : Dispatch(resp)
    \/ StartRun

Spec == Init /\ [][Next]_vars

----------------------------------------------------------------------------
(* Discovery: C3, C4 *)

RECURSIVE IsSubsequence(_, _)
IsSubsequence(a, b) ==
    IF a = <<>> THEN TRUE
    ELSE IF b = <<>> THEN FALSE
    ELSE IF Head(a) = Head(b) THEN IsSubsequence(Tail(a), Tail(b))
    ELSE IsSubsequence(a, Tail(b))

UrlsOf(rows) == [k \in 1..Len(rows) |-> rows[k].url]
UrlsOfArticles(articles) == [k \in 1..Len(articles) |-> articles[k].URL]
HasUrl(sheet, u) == \E j \in 1..Len(sheet) : sheet[j].url = u
NoDuplicateUrls(sheet) == \A i, j \in 1..Len(sheet) : sheet[i].url = sheet[j].url => i = j

\* C3: write_news_list_to_source is idempotent: a pass that is given the article
\* list of the pass before it, against the table that pass produced, appends
\* no row; and a pass appends only URLs that the table did not hold, in the
\* order of discovery, after the rows the table had.
C3_DiscoveryIdempotent ==
    [][ log'.step = "discover" =>
          /\ (log.step = "discover" /\ log'.articles = log.articles => yahoo' = yahoo)
          /\ Len(yahoo') >= Len(yahoo)
          /\ SubSeq(yahoo', 1, Len(yahoo)) = yahoo
          /\ LET appended == SubSeq(yahoo', Len(yahoo) + 1, Len(yahoo'))
             IN /\ IsSubsequence(UrlsOf(appended), UrlsOfArticles(log'.articles))
                /\ \A k \in 1..Len(appended) : ~HasUrl(yahoo, appended[k].url) ]_vars

\* C4: after any sequence of discovery passes no two data rows of the primary
\* table hold the same URL, and a pass that discovers only URLs the table
\* already holds changes nothing.
C4_UrlIsKey ==
    [][ /\ NoDuplicateUrls(yahoo')
        /\ (log'.step = "discover"
              /\ (\A k \in 1..Len(log'.articles) : HasUrl(yahoo, log'.articles[k].URL))
            => yahoo' = yahoo) ]_vars

----------------------------------------------------------------------------
(* The detail pass over one row, with pages of any length *)

DetailRows == { FreshRow(UrlA), StaleRow(UrlA), FetchedRow(UrlA), UnavailableRow(UrlA) }

\* page lengths around the cap
PageLengths ==
    { 0, 1, MAX_COMMENTS_TOTAL \div 2, MAX_COMMENTS_TOTAL - 1, MAX_COMMENTS_TOTAL,
      MAX_COMMENTS_TOTAL + 1 }

InitDetail ==
    /\ yahoo \in { <<r>> : r \in DetailRows }
    /\ comments \in InitComments
    /\ run = 1 /\ kw = NKeywords /\ pc = "details"
    /\ InitLocals
    /\ call = NoCall

NextDetail ==
    \/ FetchDetailsStart
    \/ RowBegin
    \/ \E text \in {EMPTY, TEXT} : FetchBodyPage(text)
    \/ \E n \in PageLengths : FetchCommentsPage(n)

SpecDetail == InitDetail /\ [][NextDetail]_vars

----------------------------------------------------------------------------
(* Comment cap: C1 *)

RECURSIVE SumBlocks(_, _)
\* comments enumerated in the first p blocks
SumBlocks(strings, p) == IF p = 0 THEN 0 ELSE strings[p].n + SumBlocks(strings, p - 1)

\* C1: the comments rendered across the page blocks of one article never
\* exceed MAX_COMMENTS_TOTAL; the block that carries the truncation marker
\* holds exactly the cap minus the comments of the blocks before it; no block
\* after it is populated, and no page after it is fetched.
C1_CommentCap ==
    page_strings # <<>> =>
      /\ SumBlocks(page_strings, MAX_COMMENT_PAGES) <= MAX_COMMENTS_TOTAL
      /\ \A p \in 1..MAX_COMMENT_PAGES :
            page_strings[p].marker =>
              /\ page_strings[p].n = MAX_COMMENTS_TOTAL - SumBlocks(page_strings, p - 1)
              /\ \A q \in (p + 1)..MAX_COMMENT_PAGES : page_strings[q] = EmptyBlock
              /\ comment_fetches = p

----------------------------------------------------------------------------
(* Body pagination: C6 *)

PopulatedPages(body) == { p \in 1..MAX_BODY_PAGES : to_str_safe(body[p]) # EMPTY }

\* C6: when a row needs a body fetch, whatever its body columns held, and
\* pages 1..k-1 yield text and page k (k >= 2) yields none, exactly k pages are
\* requested and the body columns as written hold exactly the k-1 pages; if
\* page 1 yields nothing, the sentinel is recorded in page 1, alone, after one
\* request.
C6_BodyPagination ==
    (log.step = "body_done" /\ log.last_empty) =>
      /\ log.wrote
      /\ body_fetches = log.stopped_at
      /\ IF log.stopped_at >= 2
           THEN /\ PopulatedPages(yahoo[log.row].body) = 1..(log.stopped_at - 1)
                /\ \A p \in 1..(log.stopped_at - 1) : yahoo[log.row].body[p] # BODY_UNAVAILABLE
           ELSE /\ PopulatedPages(yahoo[log.row].body) = {1}
                /\ yahoo[log.row].body[1] = BODY_UNAVAILABLE

----------------------------------------------------------------------------
(* Row gating: C5 *)

\* body page 1 holds text other than the sentinel
HoldsBody(row) == to_str_safe(row.body[1]) # EMPTY /\ row.body[1] # BODY_UNAVAILABLE

\* C5: a row whose body page 1 holds text other than the sentinel goes
\* straight to its comment loop: no body page is fetched for it, its columns
\* E..N are left as they are by every step of every run, and the step that ends
\* its comment loop writes its comment count and its comment record.
C5_RowGating ==
    [][ /\ \A j \in 1..Len(yahoo) : HoldsBody(yahoo[j]) => yahoo'[j].body = yahoo[j].body
        /\ (log'.step = "row" /\ HoldsBody(values[idx])) => (pc' = "comments" /\ body_fetches' = 0)
        /\ (pc = "comments" /\ HoldsBody(values[idx])) => body_fetches' = 0
        /\ (log'.step = "comments_done" /\ HoldsBody(values[idx])) =>
              /\ yahoo'[idx].count = <<all_comments'>>
              /\ \E c \in 1..Len(comments') :
                    /\ comments'[c].url = to_str_safe(values[idx].url)
                    /\ comments'[c].count = <<all_comments'>>
                    /\ comments'[c].pages = page_strings' ]_vars

\* a row whose body was fetched in the first run has had its comments
\* refreshed, without a body fetch, in the second
C5_Witness ==
    /\ run = 2
    /\ log.step = "comments_done"
    /\ HoldsBody(yahoo[log.row])
    /\ yahoo[log.row].body = [EmptyBody EXCEPT ![1] = TEXT]
    /\ body_fetches = 0
    /\ yahoo[log.row].count = <<1>>

----------------------------------------------------------------------------
(* The comment table: C7 *)

HasRecord(sheet, u) == \E j \in 1..Len(sheet) : to_str_safe(sheet[j].url) = u

OneRecordPerUrl(sheet) ==
    \A i, j \in 1..Len(sheet) :
        (StartsWithHttp(to_str_safe(sheet[i].url)) /\ to_str_safe(sheet[i].url) = to_str_safe(sheet[j].url))
          => i = j

\* C7: the comment table holds at most one row per URL after every step; the
\* write of a comment record replaces the row of a URL that has one, leaving
\* the number of rows as it is, and appends a row only for a URL that has none.
C7_OneCommentRecordPerUrl ==
    [][ /\ OneRecordPerUrl(comments')
        /\ log'.step = "comments_done" =>
              IF HasRecord(comments, log'.url)
                THEN Len(comments') = Len(comments) /\ ~log'.appended
                ELSE Len(comments') = Len(comments) + 1 /\ log'.appended ]_vars

----------------------------------------------------------------------------
(* Batch reconciliation: C2 *)

\* the rows of the batch at the local positions that are in the set S
RowsAt(batch, S) == { batch[p + 1].row_index : p \in { q \in 0..(Len(batch) - 1) : q \in S } }

\* C2: for a response whose entries carry the set S of indices, exactly the
\* targets of the batch at the local positions in S receive a classification
\* write; every other row is left as it was, and a target of the batch that was
\* not written is a target again when the next run collects its targets.
C2_BatchReconciliation ==
    [][ /\ (log'.step = "reconciled" /\ log'.all_indexed) =>
             LET batch == log'.batch
                 hit == RowsAt(batch, log'.indices)
             IN /\ log'.written = hit
                /\ \A j \in 1..Len(yahoo) :
                      IF j \in hit
                        THEN /\ yahoo'[j].cls # yahoo[j].cls
                             /\ [yahoo'[j] EXCEPT !.cls = yahoo[j].cls] = yahoo[j]
                        ELSE yahoo'[j] = yahoo[j]
                /\ \A k \in 1..Len(batch) :
                      batch[k].row_index \notin hit => batch[k].row_index \in unwritten'
        /\ log'.step = "collect" =>
             \A j \in unwritten : \E k \in 1..Len(targets') : targets'[k].row_index = j ]_vars

\* the second run collects row 1 again, which the response to the batch of
\* rows 1 and 2 in the first run did not index, while row 2, at local position
\* 1, was written
C2_Witness ==
    /\ run = 2
    /\ log.step = "collect"
    /\ Len(yahoo) = 2
    /\ unwritten = {1}
    /\ targets = <<[row_index |-> 1, url |-> to_str_safe(yahoo[1].url)]>>
    /\ yahoo[1].cls = EmptyCls
    /\ yahoo[2].cls = [c \in 1..5 |-> <<"v">>]

----------------------------------------------------------------------------
(* The classification pass alone, over a table of several batches and with *)
(* every shape of response                                                 *)

AnalyzeRows == 5

UrlNames == <<"a", "b", "c", "d", "e", "f", "g", "h">>
ClassifiedRow(u) == [FetchedRow(u) EXCEPT !.cls = [c \in 1..5 |-> <<"v">>]]

\* a table whose rows are targets, but for row `skip` (if any), which is
\* classified already
AnalyzeTable(skip) ==
    [j \in 1..AnalyzeRows |->
        IF j = skip THEN ClassifiedRow(<<ARTICLE_PREFIX, UrlNames[j]>>)
        ELSE FetchedRow(<<ARTICLE_PREFIX, UrlNames[j]>>)]

InitAnalyze ==
    /\ yahoo \in { AnalyzeTable(skip) : skip \in {0, 2} }
    /\ comments = <<CommentsHeader>>
    /\ run = 1 /\ kw = NKeywords /\ pc = "analyze"
    /\ InitLocals
    /\ call = NoCall

NextAnalyze ==
    \/ AnalyzeStart
    \/ \E resp \in Responses : Dispatch(resp)

SpecAnalyze == InitAnalyze /\ [][NextAnalyze]_vars

\* the last step was a call of generate_content
IsCallNote == log.step \in {"quota", "retry", "abandoned", "reconciled"}

BatchRows(batch) == { batch[k].row_index : k \in 1..Len(batch) }

\* the pass has moved on to the batch after the one of the last call, or has
\* ended if there is none
MovedOn ==
    IF log.more
      THEN pc = "dispatch" /\ batch_start = log.batch_start + GEMINI_MAX_BATCH_SIZE /\ attempt = 0
      ELSE pc = "done"

----------------------------------------------------------------------------
(* Quota exhaustion: C8 *)

\* C8: a call that raises the quota error is not retried: the pass ends with
\* it (no batch is left to dispatch, nothing more is written), the sheet is
\* as the earlier batches left it, and the run ends the way it ends after its
\* last batch.
C8_QuotaExhaustion ==
    (IsCallNote /\ log.kind = "ResourceExhausted") =>
      /\ log.step = "quota"
      /\ log.written = {}
      /\ yahoo = log.before
      /\ pc = "done" /\ targets = <<>> /\ attempt = 0
      /\ ~ENABLED (\E resp \in Responses : Dispatch(resp))

\* the quota error hits the second batch of three: row 1, written for the
\* first batch, keeps its classification and the third batch is not dispatched
C8_Witness ==
    /\ log.step = "quota"
    /\ log.batch_start = GEMINI_MAX_BATCH_SIZE
    /\ log.more
    /\ yahoo[1].cls = [c \in 1..5 |-> <<"v">>]
    /\ IsTarget(yahoo[AnalyzeRows])
    /\ pc = "done"

----------------------------------------------------------------------------
(* Transient failure: C9 *)

\* C9: a batch is called at most MAX_RETRIES times; a call that fails with
\* an error other than the quota error is followed by another call for the same
\* batch while fewer than MAX_RETRIES were made, and after the last one the
\* batch is abandoned: no row is written, its rows are targets still, and the
\* pass moves on to the next batch.
C9_TransientFailure ==
    IsCallNote =>
      /\ log.calls <= MAX_RETRIES
      /\ log.kind = "error" =>
           /\ log.written = {}
           /\ yahoo = log.before
           /\ \A j \in BatchRows(log.batch) : IsTarget(yahoo[j])
           /\ IF log.calls < MAX_RETRIES
                THEN /\ log.step = "retry"
                     /\ pc = "dispatch" /\ batch_start = log.batch_start
                     /\ attempt = log.calls
                ELSE /\ log.step = "abandoned"
                     /\ BatchRows(log.batch) \subseteq unwritten
                     /\ MovedOn

\* the third call for the first batch has failed, and the second batch is up
C9_Witness ==
    /\ log.step = "abandoned"
    /\ log.kind = "error"
    /\ log.seen = {"error"}
    /\ log.calls = MAX_RETRIES
    /\ log.batch_start = 0
    /\ pc = "dispatch"
    /\ batch_start = GEMINI_MAX_BATCH_SIZE
    /\ Batch(targets, batch_start) # <<>>

----------------------------------------------------------------------------
(* Malformed response: C10 *)

\* text that is not JSON; JSON that is neither a list nor an object with
\* "results"; an object whose "results" is not a list
Malformed == {"invalid_json", "other_json", "results_scalar", "results_string"}

\* C10: a malformed response ends the work on its batch: nothing is written
\* for the batch, by this call or by another call for the same batch, and the
\* pass moves on to the next batch.
C10_MalformedResponse ==
    IsCallNote =>
      /\ log.kind \in Malformed =>
           /\ log.step = "reconciled"
           /\ log.written = {}
           /\ yahoo = log.before
           /\ MovedOn
      /\ log.seen \cap Malformed # {} => log.written = {}

----------------------------------------------------------------------------
(* The classification pass over rows of every kind: C11 *)

PartCls == [EmptyCls EXCEPT ![1] = <<"v">>, ![2] = <<"v">>, ![4] = <<"v">>, ![5] = <<"v">>]
BlankCls == [[c \in 1..5 |-> <<"v">>] EXCEPT ![3] = <<WS>>]
DefaultCls == [c \in 1..5 |-> NOT_AVAILABLE]

\* rows of every kind: the URL an article URL (with or without a blank
\* around it), another URL or none; the body never fetched, fetched,
\* unavailable, or unavailable with an older page 3; the classification
\* absent, complete, or with one cell empty or blank
CollectRows ==
    { [FreshRow(u) EXCEPT !.body = b, !.cls = c] :
        u \in {UrlA, UrlAws, UrlOther, EMPTY},
        b \in { EmptyBody, [EmptyBody EXCEPT ![1] = TEXT],
                [EmptyBody EXCEPT ![2] = TEXT],
                [EmptyBody EXCEPT ![1] = BODY_UNAVAILABLE],
                [EmptyBody EXCEPT ![1] = BODY_UNAVAILABLE, ![3] = OLD] },
        c \in { EmptyCls, PartCls, BlankCls, DefaultCls } }

InitCollect ==
    /\ yahoo \in { <<r, t>> : r \in CollectRows,
                              t \in {FetchedRow(UrlB), ClassifiedRow(UrlB)} }
    /\ comments = <<CommentsHeader>>
    /\ run = 1 /\ kw = NKeywords /\ pc = "analyze"
    /\ InitLocals
    /\ call = NoCall

NextCollect ==
    \/ AnalyzeStart
    \/ \E resp \in RunResponses : Dispatch(resp)

SpecCollect == InitCollect /\ [][NextCollect]_vars

\* the three conditions of a target, on the cells as the sheet holds them
HasArticleUrl(row) == IsArticleUrl(to_str_safe(row.url))
HasBodyPage(row) ==
    \E p \in 1..MAX_BODY_PAGES : to_str_safe(row.body[p]) # EMPTY /\ row.body[p] # BODY_UNAVAILABLE
LacksClassification(row) == \E c \in 1..5 : to_str_safe(row.cls[c]) = EMPTY

\* C11: the rows collected as targets are, in row order, exactly the rows
\* that have an article URL, a body page that is neither empty nor the
\* sentinel, and an empty classification cell; and no call of the pass changes
\* a row that is not such a row.
C11_TargetCollection ==
    [][ /\ log'.step = "collect" =>
             /\ \A j \in 1..Len(yahoo) :
                   (\E k \in 1..Len(targets') : targets'[k].row_index = j)
                     <=> (HasArticleUrl(yahoo[j]) /\ HasBodyPage(yahoo[j])
                            /\ LacksClassification(yahoo[j]))
             /\ \A k \in 1..(Len(targets') - 1) :
                   targets'[k].row_index < targets'[k + 1].row_index
        /\ pc = "dispatch" =>
             \A j \in 1..Len(yahoo) :
                ~(HasArticleUrl(yahoo[j]) /\ HasBodyPage(yahoo[j]) /\ LacksClassification(yahoo[j]))
                   => yahoo'[j] = yahoo[j] ]_vars

\* row 1, its classification complete, was passed over while row 2 was
\* collected and written
C11_Witness ==
    /\ log.step = "reconciled"
    /\ log.batch = <<[row_index |-> 2, url |-> UrlB]>>
    /\ log.written = {2}
    /\ HasArticleUrl(yahoo[1]) /\ HasBodyPage(yahoo[1])
    /\ yahoo[1].cls = DefaultCls
    /\ yahoo[1] = log.before[1]

----------------------------------------------------------------------------
(* Discovery with the metadata of each article: C12 *)

\* the sentinel written at lines 352-353 and 400-401
META_UNAVAILABLE == <<"unavailable">>

(* What the page of an article gives fetch_article_meta, as `page`:        *)
(*   fetched    request_with_retry returned a response                     *)
(*   h1, og     text of the first h1; content of the og:title meta         *)
(*   time       text of the first time element                             *)
(*   dated      the match of the delivery-time pattern in the page text    *)
(*   providers  text of the element each provider candidate finds, in the  *)
(*              order of provider_candidates (EMPTY: no such element)      *)
(*   named      the first of the listed agency names the page text holds   *)
BlankMeta == [title |-> EMPTY, posted |-> EMPTY, source |-> EMPTY]

\* lines 307-314
TitleOf(page) ==
    IF to_str_safe(page.h1) # EMPTY THEN to_str_safe(page.h1)
    ELSE IF page.og # EMPTY THEN to_str_safe(page.og)
    ELSE EMPTY

\* lines 317-325
PostStrOf(page) ==
    IF to_str_safe(page.time) # EMPTY THEN to_str_safe(page.time)
    ELSE IF page.dated # EMPTY THEN to_str_safe(page.dated)
    ELSE EMPTY

\* lines 328-349
RECURSIVE FirstProvider(_)
FirstProvider(els) ==
    IF els = <<>> THEN EMPTY
    ELSE IF to_str_safe(Head(els)) # EMPTY THEN to_str_safe(Head(els))
    ELSE FirstProvider(Tail(els))

SourceOf(page) ==
    IF FirstProvider(page.providers) # EMPTY THEN FirstProvider(page.providers)
    ELSE page.named

\* lines 293-354
fetch_article_meta(page) ==
    IF ~page.fetched THEN BlankMeta
    ELSE [title  |-> TitleOf(page),
          posted |-> IF PostStrOf(page) # EMPTY THEN PostStrOf(page) ELSE META_UNAVAILABLE,
          source |-> IF SourceOf(page) # EMPTY THEN SourceOf(page) ELSE META_UNAVAILABLE]

\* lines 392-405: found[k] is a URL of extract_article_urls with the page
\* its article gives
get_yahoo_news_with_selenium(found) ==
    [k \in 1..Len(found) |->
        LET meta == fetch_article_meta(found[k].page)
        IN [URL    |-> found[k].url,
            title  |-> meta.title,
            posted |-> IF meta.posted # EMPTY THEN meta.posted ELSE META_UNAVAILABLE,
            source |-> IF meta.source # EMPTY THEN meta.source ELSE META_UNAVAILABLE]]

\* line 897: the search of the keyword main() is at
SearchKeyword(found) ==
    /\ pc = "discover"
    /\ call.kw # kw
    /\ call' = [fn |-> "get_yahoo_news_with_selenium", kw |-> kw, found |-> found,
                articles |-> get_yahoo_news_with_selenium(found)]
    /\ UNCHANGED <<yahoo, comments, run, kw, pc, detail_locals, analyze_locals, observed>>

\* line 898
WriteKeyword ==
    /\ call.kw = kw
    /\ write_news_list_to_source(call.articles)

NoPage == [fetched |-> FALSE, h1 |-> EMPTY, og |-> EMPTY, time |-> EMPTY, dated |-> EMPTY,
           providers |-> <<>>, named |-> EMPTY]
BarePage == [NoPage EXCEPT !.fetched = TRUE]
FullPage == [BarePage EXCEPT !.h1 = <<WS, "title">>, !.time = <<"posted">>,
                             !.providers = << <<"source">> >>]
OgPage == [BarePage EXCEPT !.h1 = <<WS>>, !.og = <<"og-title", WS>>, !.dated = <<"dated">>,
                           !.providers = <<EMPTY, <<WS>> >>, !.named = <<"agency">>]
BlankOgPage == [BarePage EXCEPT !.og = <<WS>>, !.time = <<WS>>, !.providers = <<EMPTY, <<"source">> >>]
ArticlePages == {NoPage, BarePage, FullPage, OgPage, BlankOgPage}

\* what a search gives: no URL, one, or two
SearchResults ==
    LET item(u, g) == [url |-> u, page |-> g]
    IN {<<>>} \cup { <<item(UrlA, g)>> : g \in ArticlePages }
              \cup { <<item(UrlB, g), item(UrlA, h)>> : g, h \in ArticlePages }

InitDiscover ==
    /\ yahoo \in { <<>>, <<FetchedRow(UrlA)>> }
    /\ comments = <<CommentsHeader>>
    /\ run = 1 /\ kw = 1 /\ pc = "discover"
    /\ InitLocals
    /\ call = [fn |-> "get_yahoo_news_with_selenium", kw |-> 0, found |-> <<>>, articles |-> <<>>]

NextDiscover ==
    \/ \E found \in SearchResults : SearchKeyword(found)
    \/ WriteKeyword

SpecDiscover == InitDiscover /\ [][NextDiscover]_vars

\* no strategy yields a title, a posting time, a source
TitleFails(page) == ~page.fetched \/ (to_str_safe(page.h1) = EMPTY /\ to_str_safe(page.og) = EMPTY)
PostedFails(page) == ~page.fetched \/ (to_str_safe(page.time) = EMPTY /\ to_str_safe(page.dated) = EMPTY)
SourceFails(page) == ~page.fetched \/ (FirstProvider(page.providers) = EMPTY /\ page.named = EMPTY)

\* C12: in a row appended for a discovered article, the title, the posting
\* time and the source are never empty, and each is the sentinel when no
\* strategy for it yields a value, the page that was not fetched included.
C12_MetadataSentinel ==
    [][ log'.step = "discover" =>
          \A j \in (Len(yahoo) + 1)..Len(yahoo') : \A i \in 1..Len(call.found) :
              call.found[i].url = yahoo'[j].url =>
                LET page == call.found[i].page
                    row == yahoo'[j]
                IN /\ row.title # EMPTY /\ row.posted # EMPTY /\ row.source # EMPTY
                   /\ TitleFails(page) => row.title = META_UNAVAILABLE
                   /\ PostedFails(page) => row.posted = META_UNAVAILABLE
                   /\ SourceFails(page) => row.source = META_UNAVAILABLE ]_vars

\* the same for the posting time and the source alone
PostedAndSourceSentinel ==
    [][ log'.step = "discover" =>
          \A j \in (Len(yahoo) + 1)..Len(yahoo') : \A i \in 1..Len(call.found) :
              call.found[i].url = yahoo'[j].url =>
                LET page == call.found[i].page
                    row == yahoo'[j]
                IN /\ row.posted # EMPTY /\ row.source # EMPTY
                   /\ PostedFails(page) => row.posted = META_UNAVAILABLE
                   /\ SourceFails(page) => row.source = META_UNAVAILABLE ]_vars

----------------------------------------------------------------------------
(* request_with_retry and its callers: C13 *)

\* the default of the parameter max_retries (line 237), which every caller
\* leaves as it is
max_retries == 3

(* What one requests.get gives, as `outcome`:                              *)
(*   "ok"          a response whose status raise_for_status accepts        *)
(*   "404"         a response of status 404                                *)
(*   "http_error"  another response raise_for_status raises HTTPError for  *)
(*   "transport"   requests.get raises (connection error, timeout)         *)
Outcomes == {"ok", "404", "http_error", "transport"}

\* faulty variant: status 404 left to raise_for_status
AfterRequestNo404(outcome) ==
    IF outcome = "ok" THEN "return_response" ELSE "except"

\* lines 241-247: how one pass of the loop body ends
AfterRequest(outcome) ==
    IF outcome = "ok" THEN "return_response"
    ELSE IF outcome = "404" THEN "return_none"
    ELSE "except"

Callers == {"fetch_article_body_page", "fetch_comments_page", "fetch_article_meta"}

\* lines 239-254: one pass of the loop of request_with_retry. (Line 255 is
\* not reached: the last pass returns.)
Request(outcome) ==
    /\ call.fn = "request_with_retry"
    /\ call.state = "loop"
    /\ call.attempt < max_retries
    /\ LET made == [call EXCEPT !.requests = @ + 1, !.outcomes = Append(@, outcome)]
       IN call' =
            CASE AfterRequest(outcome) = "return_response" ->
                   [made EXCEPT !.state = "returned", !.result = "response"]
              [] AfterRequest(outcome) = "return_none" ->
                   [made EXCEPT !.state = "returned", !.result = "None"]
              [] OTHER ->
                   IF call.attempt < max_retries - 1
                     THEN [made EXCEPT !.attempt = @ + 1]
                     ELSE [made EXCEPT !.state = "returned", !.result = "None"]
    /\ UNCHANGED <<yahoo, comments, run, kw, pc, detail_locals, analyze_locals, observed>>

\* what the caller returns for a response whose page holds `content`:
\* lines 476-491, 502-574, 304-354
FromResponse(caller, content) ==
    CASE caller = "fetch_article_body_page" -> (IF content THEN TEXT ELSE EMPTY)
      [] caller = "fetch_comments_page" -> (IF content THEN 1 ELSE 0)
      [] OTHER -> fetch_article_meta(IF content THEN FullPage ELSE BarePage)

\* what the caller returns when request_with_retry returned None:
\* lines 474-475, 499-500, 301-302
FromNone(caller) ==
    CASE caller = "fetch_article_body_page" -> EMPTY
      [] caller = "fetch_comments_page" -> 0
      [] OTHER -> fetch_article_meta(NoPage)

\* the caller takes the result of request_with_retry and returns
CallerReturns(content) ==
    /\ call.fn = "request_with_retry"
    /\ call.state = "returned"
    /\ call' = [call EXCEPT !.state = "consumed",
                            !.value = IF call.result = "None" THEN FromNone(call.caller)
                                      ELSE FromResponse(call.caller, content)]
    /\ UNCHANGED <<yahoo, comments, run, kw, pc, detail_locals, analyze_locals, observed>>

InitRequest ==
    /\ yahoo = <<>> /\ comments = <<CommentsHeader>>
    /\ run = 1 /\ kw = 1 /\ pc = "discover"
    /\ InitLocals
    /\ \E caller \in Callers, u \in {UrlA, UrlB, UrlAws} :
          call = [fn |-> "request_with_retry", caller |-> caller, url |-> u,
                  attempt |-> 0, requests |-> 0, outcomes |-> <<>>,
                  state |-> "loop", result |-> "pending", value |-> EMPTY]

NextRequest ==
    \/ \E outcome \in Outcomes : Request(outcome)
    \/ \E content \in BOOLEAN : CallerReturns(content)

SpecRequest == InitRequest /\ [][NextRequest]_vars

IsFailure(outcome) == outcome \in {"http_error", "transport"}

\* C13: request_with_retry issues at most max_retries requests; a 404
\* response is the last request and gives None; a request that fails is
\* followed by another until max_retries were made, and then the result is
\* None; and a caller given None returns its empty value.
C13_PageFetchRetry ==
    call.fn = "request_with_retry" =>
      LET n == Len(call.outcomes)
      IN /\ call.requests = n /\ n <= max_retries
         /\ call.state \in {"loop", "returned", "consumed"}
         /\ \A i \in 1..n :
               /\ call.outcomes[i] \in {"ok", "404"} => (i = n /\ call.state # "loop")
               /\ i < n => IsFailure(call.outcomes[i])
         /\ (n > 0 /\ call.outcomes[n] = "404") => call.result = "None"
         /\ (n > 0 /\ IsFailure(call.outcomes[n])) =>
               IF n < max_retries
                 THEN call.state = "loop" /\ call.attempt = n
                 ELSE call.state # "loop" /\ call.result = "None"
         /\ (call.state = "consumed" /\ call.result = "None") =>
               call.value = CASE call.caller = "fetch_article_body_page" -> EMPTY
                              [] call.caller = "fetch_comments_page" -> 0
                              [] OTHER -> BlankMeta

\* three requests for a body page have failed and the page is taken as empty
C13_Witness ==
    /\ call.fn = "request_with_retry"
    /\ call.caller = "fetch_article_body_page"
    /\ call.outcomes = <<"transport", "http_error", "transport">>
    /\ call.state = "consumed"
    /\ call.result = "None"
    /\ call.value = EMPTY

----------------------------------------------------------------------------
(* parse_post_date: C14, C15 *)

(* A display string is a sequence of tokens [t, n, w]: a run of w digits  *)
(* of value n (t = "num"), one of the characters "/", ":" and " ", a      *)
(* weekday in brackets such as (日) (t = "wd"), the word 配信              *)
(* (t = "haishin"), or other text (t = "txt").                            *)
Num(n, w) == [t |-> "num", n |-> n, w |-> w]
Tok(t) == [t |-> t, n |-> 0, w |-> 0]

RECURSIVE Pow10(_)
Pow10(k) == IF k = 0 THEN 1 ELSE 10 * Pow10(k - 1)

\* runs of digits that have become adjacent are one run
RECURSIVE MergeDigits(_)
MergeDigits(s) ==
    IF Len(s) < 2 THEN s
    ELSE IF s[1].t = "num" /\ s[2].t = "num"
      THEN MergeDigits(<<Num(s[1].n * Pow10(s[2].w) + s[2].n, s[1].w + s[2].w)>> \o SubSeq(s, 3, Len(s)))
      ELSE <<s[1]>> \o MergeDigits(Tail(s))

\* str.strip()
RECURSIVE StripText(_)
StripText(s) ==
    IF s # <<>> /\ Head(s).t = " " THEN StripText(Tail(s))
    ELSE IF s # <<>> /\ s[Len(s)].t = " " THEN StripText(SubSeq(s, 1, Len(s) - 1))
    ELSE s

Without(s, t) == MergeDigits(SelectSeq(s, LAMBDA x : x.t # t))

\* the pattern of line 132, character by character; "U+6708" and the like
\* are the characters 月火水木金土日
WEEKDAY_PATTERN ==
    <<"\\(", "[", "\\u", "6", "7", "0", "U+6708", "U+706B", "U+6C34", "U+6728", "U+91D1",
      "U+571F", "U+65E5", "]", "\\)">>

HexDigits ==
    {"0", "1", "2", "3", "4", "5", "6", "7", "8", "9",
     "a", "b", "c", "d", "e", "f", "A", "B", "C", "D", "E", "F"}

\* re compiles a pattern only if each \u is followed by four hexadecimal
\* digits; otherwise re.sub raises re.error
Compiles(pattern) ==
    \A i \in 1..Len(pattern) :
        pattern[i] = "\\u" =>
            /\ i + 4 <= Len(pattern)
            /\ \A k \in 1..4 : pattern[i + k] \in HexDigits

\* runs of blanks, which a blank of a format matches as one
RECURSIVE Squeeze(_)
Squeeze(s) ==
    IF Len(s) < 2 THEN s
    ELSE IF s[1].t = " " /\ s[2].t = " " THEN Squeeze(Tail(s))
    ELSE <<s[1]>> \o Squeeze(Tail(s))

\* the formats of line 135, field by field
Formats ==
    << <<"Y", "/", "m", "/", "d", " ", "H", ":", "M", ":", "S">>,
       <<"Y", "/", "m", "/", "d", " ", "H", ":", "M">>,
       <<"y", "/", "m", "/", "d", " ", "H", ":", "M">>,
       <<"m", "/", "d", " ", "H", ":", "M">> >>

\* the digits a directive of strptime accepts
FieldAccepts(f, x) ==
    /\ x.t = "num"
    /\ CASE f = "Y" -> x.w = 4
         [] f = "y" -> x.w = 2
         [] f = "m" -> x.w \in 1..2 /\ x.n \in 1..12
         [] f = "d" -> x.w \in 1..2 /\ x.n \in 1..31
         [] f = "H" -> x.w \in 1..2 /\ x.n \in 0..23
         [] f = "M" -> x.w \in 1..2 /\ x.n \in 0..59
         [] OTHER   -> x.w \in 1..2 /\ x.n \in 0..59

\* the whole of s matches the format
Matches(s, fmt) ==
    LET q == Squeeze(s)
    IN /\ Len(q) = Len(fmt)
       /\ \A i \in 1..Len(fmt) :
             IF fmt[i] \in {"/", ":", " "} THEN q[i].t = fmt[i] ELSE FieldAccepts(fmt[i], q[i])

IsLeap(y) == (y % 4 = 0 /\ y % 100 # 0) \/ y % 400 = 0
DaysInMonth(y, m) ==
    IF m = 2 THEN (IF IsLeap(y) THEN 29 ELSE 28)
    ELSE IF m \in {4, 6, 9, 11} THEN 30 ELSE 31
ValidDate(y, m, d) == y >= 1 /\ m \in 1..12 /\ d \in 1..DaysInMonth(y, m)

RECURSIVE DaysBeforeMonth(_, _)
DaysBeforeMonth(y, m) == IF m = 1 THEN 0 ELSE DaysInMonth(y, m - 1) + DaysBeforeMonth(y, m - 1)

\* days since 0001-01-01, and seconds of the day
Ordinal(dt) ==
    LET y == dt.year - 1
    IN 365 * y + (y \div 4) - (y \div 100) + (y \div 400) + DaysBeforeMonth(dt.year, dt.month) + dt.day
SecondOfDay(dt) == 3600 * dt.hour + 60 * dt.minute + dt.second

\* a > b + timedelta(days), both in JST
LaterThan(a, b, days) ==
    \/ Ordinal(a) > Ordinal(b) + days
    \/ Ordinal(a) = Ordinal(b) + days /\ SecondOfDay(a) > SecondOfDay(b)

\* datetime.strptime(s, fmt) where s matches: the datetime, or ValueError
Strptime(s, k) ==
    LET q == Squeeze(s)
        fmt == Formats[k]
        at(f) == IF \E i \in 1..Len(fmt) : fmt[i] = f
                   THEN q[CHOOSE i \in 1..Len(fmt) : fmt[i] = f].n ELSE 0
        year == IF k \in {1, 2} THEN at("Y")
                ELSE IF k = 3 THEN (IF at("y") >= 69 THEN 1900 + at("y") ELSE 2000 + at("y"))
                ELSE 1900
    IN IF ValidDate(year, at("m"), at("d"))
         THEN [kind |-> "datetime",
               dt |-> [year |-> year, month |-> at("m"), day |-> at("d"),
                       hour |-> at("H"), minute |-> at("M"), second |-> at("S")]]
         ELSE [kind |-> "ValueError"]

\* dt.replace(year=y)
ReplaceYear(dt, y) ==
    IF ValidDate(y, dt.month, dt.day)
      THEN [kind |-> "datetime", dt |-> [dt EXCEPT !.year = y]]
      ELSE [kind |-> "ValueError"]

\* lines 136-144: the body of the try for format k
TryFormat(s, k, today_jst) ==
    IF ~Matches(s, Formats[k]) THEN [kind |-> "ValueError"]
    ELSE LET parsed == Strptime(s, k)
             dated == IF parsed.kind = "datetime" /\ k = 4
                        THEN ReplaceYear(parsed.dt, today_jst.year) ELSE parsed
         IN IF dated.kind = "datetime" /\ LaterThan(dated.dt, today_jst, 31)
              THEN ReplaceYear(dated.dt, dated.dt.year - 1)
              ELSE dated

RECURSIVE FirstFormat(_, _, _)
FirstFormat(s, k, today_jst) ==
    IF k > Len(Formats) THEN [kind |-> "None"]
    ELSE IF TryFormat(s, k, today_jst).kind = "datetime" THEN TryFormat(s, k, today_jst)
    ELSE FirstFormat(s, k + 1, today_jst)

\* lines 123-145; raw is [kind, s] with kind "None", "number" or "str"
parse_post_date(raw, today_jst) ==
    IF raw.kind # "str" THEN [kind |-> "None"]
    ELSE IF ~Compiles(WEEKDAY_PATTERN) THEN [kind |-> "raises", error |-> "re.error"]
    ELSE FirstFormat(StripText(Without(StripText(Without(StripText(raw.s), "wd")), "haishin")),
                     1, today_jst)

ParsePostDate ==
    /\ call.fn = "parse_post_date"
    /\ call.state = "called"
    /\ call' = [call EXCEPT !.state = "done",
                            !.result = parse_post_date(call.raw, call.today_jst)]
    /\ UNCHANGED <<yahoo, comments, run, kw, pc, detail_locals, analyze_locals, observed>>

Str(s) == [kind |-> "str", s |-> s]
At(y, mo, d, h, mi, sec) ==
    [year |-> y, month |-> mo, day |-> d, hour |-> h, minute |-> mi, second |-> sec]

\* "M/D(weekday)H:MM配信", as the article pages show it
Display(mo, d, h, mi) ==
    Str(<<Num(mo, 2), Tok("/"), Num(d, 2), Tok("wd"), Num(h, 2), Tok(":"), Num(mi, 2),
          Tok("haishin")>>)
\* "M/D H:MM"
Plain(mo, d, h, mi) ==
    Str(<<Num(mo, IF mo > 9 THEN 2 ELSE 1), Tok("/"), Num(d, IF d > 9 THEN 2 ELSE 1), Tok(" "),
          Num(h, 2), Tok(":"), Num(mi, 2)>>)
\* "YYYY/MM/DD HH:MM"
Full(y, mo, d, h, mi) ==
    Str(<<Num(y, 4), Tok("/"), Num(mo, 2), Tok("/"), Num(d, 2), Tok(" "), Num(h, 2), Tok(":"),
          Num(mi, 2)>>)

RawInputs ==
    { [kind |-> "None", s |-> <<>>], [kind |-> "number", s |-> <<>>],
      Str(<<>>), Str(<<Tok("txt"), Tok(" "), Tok("txt")>>), Str(<<Tok(" "), Tok("txt")>>),
      Display(12, 31, 23, 0), Display(1, 5, 9, 30), Display(2, 29, 10, 0),
      Str(<<Num(12, 2), Tok("/"), Num(31, 2), Tok("wd"), Tok(" "), Num(23, 2), Tok(":"),
            Num(0, 2), Tok("haishin")>>),
      Plain(12, 31, 23, 0), Plain(2, 5, 12, 1), Plain(2, 5, 12, 0), Plain(13, 1, 10, 0),
      Plain(2, 30, 10, 0),
      Full(2024, 2, 29, 10, 0), Full(2025, 12, 31, 23, 0), Full(2023, 12, 31, 23, 0),
      Str(<<Num(24, 2), Tok("/"), Num(12, 2), Tok("/"), Num(31, 2), Tok(" "), Num(23, 2),
            Tok(":"), Num(0, 2)>>) }

References ==
    { At(2024, 1, 5, 12, 0, 0), At(2024, 1, 5, 0, 0, 0), At(2023, 12, 1, 8, 0, 0),
      At(2024, 12, 31, 23, 59, 59), At(2023, 3, 1, 12, 0, 0), At(2024, 2, 29, 12, 0, 0) }

InitParse ==
    /\ yahoo = <<>> /\ comments = <<CommentsHeader>>
    /\ run = 1 /\ kw = 1 /\ pc = "discover"
    /\ InitLocals
    /\ \E raw \in RawInputs, today_jst \in References :
          call = [fn |-> "parse_post_date", raw |-> raw, today_jst |-> today_jst,
                  state |-> "called", result |-> [kind |-> "pending"]]

NextParse == ParsePostDate

SpecParse == InitParse /\ [][NextParse]_vars

\* raw has the shape "M/D(weekday)H:MM配信" of a date of the calendar
IsDisplayDate(raw) ==
    /\ raw.kind = "str"
    /\ Len(raw.s) = 8
    /\ raw.s[2].t = "/" /\ raw.s[4].t = "wd" /\ raw.s[6].t = ":" /\ raw.s[8].t = "haishin"
    /\ FieldAccepts("m", raw.s[1]) /\ FieldAccepts("d", raw.s[3])
    /\ FieldAccepts("H", raw.s[5]) /\ FieldAccepts("M", raw.s[7])

\* C14: an input "M/D(weekday)H:MM配信" yields the instant of that month,
\* day, hour and minute in the year of the reference instant, or in the year
\* before it when that instant lies more than 31 days after the reference.
C14_YearRollback ==
    (call.fn = "parse_post_date" /\ call.state = "done" /\ IsDisplayDate(call.raw)) =>
      LET s == call.raw.s
          same == At(call.today_jst.year, s[1].n, s[3].n, s[5].n, s[7].n, 0)
          expected == IF LaterThan(same, call.today_jst, 31)
                        THEN [same EXCEPT !.year = @ - 1] ELSE same
      IN ValidDate(expected.year, expected.month, expected.day) =>
           call.result = [kind |-> "datetime", dt |-> expected]

\* the text without the weekday and without the word 配信
Cleaned(raw) == StripText(Without(StripText(Without(StripText(raw.s), "wd")), "haishin"))

\* C15: for a string that matches none of the four formats, parse_post_date
\* returns None and does not raise.
C15_NotADate ==
    (call.fn = "parse_post_date" /\ call.state = "done" /\ call.raw.kind = "str"
       /\ \A k \in 1..Len(Formats) : ~Matches(Cleaned(call.raw), Formats[k]))
      => call.result = [kind |-> "None"]

----------------------------------------------------------------------------
(* fetch_comments_page: C16 *)

(* A text is a sequence of characters. The characters that matter to the  *)
(* noise patterns are "[" and "]" for the brackets of line 544, "Z" and   *)
(* "Y" for the words of line 540 (tax included; yen), the digits, and the *)
(* characters of the phrases below. The texts drawn hold no delivery time *)
(* (541), no ABEMA TIMES line (542) and no line of the form of 545.       *)

\* the least length of a comment (line 552)
MinCommentLength == 6

\* lines 537-539: texts that are one of the phrases and nothing else (two of the three)
WRITE_A_COMMENT == <<"ko", "me", "n", "to", "wo", "ka", "ku">>
COMMENT_POLICY == <<"ya", "fu", "ko", "me", "po", "ri", "shi", "i">>
NoisePhrases == {WRITE_A_COMMENT, COMMENT_POLICY}

\* line 543: the agency name a noise line begins with
AGENCY_PREFIX == <<"oki", "nawa", "ta", "i", "mu", "su">>

Digits == {"0", "1", "2", "3", "4", "5", "6", "7", "8", "9"}

\* from position i on: blanks, then one digit or more, then blanks, then "Y"
RECURSIVE PriceTail(_, _, _)
PriceTail(text, i, digits) ==
    IF i > Len(text) THEN FALSE
    ELSE IF text[i] = WS /\ digits = 0 THEN PriceTail(text, i + 1, 0)
    ELSE IF text[i] \in Digits /\ digits < 2 THEN PriceTail(text, i + 1, 1)
    ELSE IF text[i] = WS /\ digits >= 1 THEN PriceTail(text, i + 1, 2)
    ELSE text[i] = "Y" /\ digits >= 1

\* line 540, found anywhere in the text
HasPrice(text) == \E i \in 1..Len(text) : text[i] = "Z" /\ PriceTail(text, i + 1, 0)

\* line 543 and line 544, at the start of the text (after blanks)
HasNoiseHead(text) ==
    LET t == LStrip(text)
    IN \/ Len(t) >= Len(AGENCY_PREFIX) /\ SubSeq(t, 1, Len(AGENCY_PREFIX)) = AGENCY_PREFIX
       \/ t # <<>> /\ Head(t) = "[" /\ \E j \in 3..Len(t) : t[j] = "]"

\* noise_re.search(text), lines 536-547
IsNoise(text) == to_str_safe(text) \in NoisePhrases \/ HasPrice(text) \/ HasNoiseHead(text)

\* faulty variant: no least length
is_comment_text_any_length(text) == text # EMPTY /\ ~IsNoise(text)

\* lines 549-556
is_comment_text(text) ==
    /\ text # EMPTY
    /\ Len(text) >= MinCommentLength
    /\ ~IsNoise(text)

\* lines 560-562 and 570-572 for one node
Accept(found, node) ==
    LET text == to_str_safe(node.text)
    IN IF is_comment_text(text) /\ \A i \in 1..Len(found) : found[i] # text
         THEN Append(found, text) ELSE found

RECURSIVE Gather(_, _)
Gather(nodes, found) ==
    IF nodes = <<>> THEN found ELSE Gather(Tail(nodes), Accept(found, Head(nodes)))

\* the strict selectors, in the order of lines 524-533 (three of the eight)
StrictSelectors == <<"div[class*='CommentItem__body']", "p[class*='CommentItem__text']",
                     "div[class*='CommentItem'] p">>

\* lines 558-562: selector by selector, the nodes of the scope in page order
RECURSIVE GatherStrict(_, _, _)
GatherStrict(sels, nodes, found) ==
    IF sels = <<>> THEN found
    ELSE GatherStrict(Tail(sels), nodes,
                      Gather(SelectSeq(nodes, LAMBDA n : Head(sels) \in n.sels), found))

(* A page of comments, as `page`: fetched (request_with_retry returned a   *)
(* response), root (a container candidate of lines 505-518 was found), and *)
(* nodes, the elements in page order: sels the strict selectors the node   *)
(* matches, inroot whether it lies in the container, commentish whether it *)
(* is a p, span or div whose class holds CommentItem or comment, and text. *)
fetch_comments_page(page) ==
    IF ~page.fetched THEN <<>>
    ELSE LET scope == IF page.root THEN SelectSeq(page.nodes, LAMBDA n : n.inroot)
                      ELSE page.nodes
             strict == GatherStrict(StrictSelectors, scope, <<>>)
         IN IF strict = <<>> /\ page.root
              THEN Gather(SelectSeq(page.nodes, LAMBDA n : n.inroot /\ n.commentish), <<>>)
              ELSE strict

FetchCommentsPageCall ==
    /\ call.fn = "fetch_comments_page"
    /\ call.state = "called"
    /\ call' = [call EXCEPT !.state = "done", !.result = fetch_comments_page(call.page)]
    /\ UNCHANGED <<yahoo, comments, run, kw, pc, detail_locals, analyze_locals, observed>>

SIX == <<"a", "b", "c", "d", "e", "f">>
CommentTexts ==
    { <<WS>>, SIX, <<WS>> \o SIX \o <<WS>>, <<WS, "a", "b", "c", "d", "e">>,
      <<"g", "h", "i", "j", "k", "l", "m">>, <<WS>> \o WRITE_A_COMMENT,
      <<"a", "Z", WS, "1", "2", "Y", "b">>, <<"[", "a", "]", "b", "c", "d">> }

NodeKinds ==
    { [sels |-> {}, inroot |-> TRUE, commentish |-> TRUE],
      [sels |-> {}, inroot |-> TRUE, commentish |-> FALSE],
      [sels |-> {}, inroot |-> FALSE, commentish |-> TRUE],
      [sels |-> {StrictSelectors[1]}, inroot |-> TRUE, commentish |-> TRUE],
      [sels |-> {StrictSelectors[1]}, inroot |-> FALSE, commentish |-> TRUE],
      [sels |-> {StrictSelectors[1], StrictSelectors[3]}, inroot |-> TRUE, commentish |-> FALSE] }

CommentNodes ==
    { [sels |-> k.sels, inroot |-> k.inroot, commentish |-> k.commentish, text |-> t] :
        k \in NodeKinds, t \in CommentTexts }

MaxNodes == 2

CommentPagesIn ==
    { [fetched |-> f, root |-> r, nodes |-> ns] :
        f \in BOOLEAN, r \in BOOLEAN,
        ns \in UNION { [1..k -> CommentNodes] : k \in 0..MaxNodes } }

InitCommentsPage ==
    /\ yahoo = <<>> /\ comments = <<CommentsHeader>>
    /\ run = 1 /\ kw = 1 /\ pc = "details"
    /\ InitLocals
    /\ \E page \in CommentPagesIn :
          call = [fn |-> "fetch_comments_page", page |-> page, state |-> "called", result |-> <<>>]

NextCommentsPage == FetchCommentsPageCall

SpecCommentsPage == InitCommentsPage /\ [][NextCommentsPage]_vars

\* C16: every string fetch_comments_page returns is non-empty, has at least
\* MinCommentLength characters, is no noise, and occurs once in the list,
\* whichever of the two passes collected it.
C16_CommentAcceptance ==
    (call.fn = "fetch_comments_page" /\ call.state = "done") =>
      /\ \A i \in 1..Len(call.result) :
            LET c == call.result[i]
            IN /\ c # EMPTY
               /\ Len(c) >= MinCommentLength
               /\ c \notin NoisePhrases /\ ~HasPrice(c) /\ ~HasNoiseHead(c)
               /\ \E k \in 1..Len(call.page.nodes) : to_str_safe(call.page.nodes[k].text) = c
      /\ \A i, j \in 1..Len(call.result) : call.result[i] = call.result[j] => i = j

\* the relaxed pass has collected one comment from two nodes of the
\* container that hold it, no node matching a strict selector
C16_Witness ==
    /\ call.fn = "fetch_comments_page" /\ call.state = "done"
    /\ call.page.root
    /\ Len(call.page.nodes) = 2
    /\ \A k \in 1..2 : /\ call.page.nodes[k].sels = {}
                       /\ call.page.nodes[k].inroot /\ call.page.nodes[k].commentish
    /\ call.page.nodes[1].text = <<WS>> \o SIX \o <<WS>>
    /\ call.page.nodes[2].text = SIX
    /\ call.result = <<SIX>>

----------------------------------------------------------------------------
(* extract_article_urls: C17 *)

(* A search page, as `page`: parses (BeautifulSoup built the tree), and    *)
(* items, the page in document order: an anchor with its href, or a run of *)
(* text. A string is ARTICLE_PREFIX or OTHER_HTTP as one token each and    *)
(* single characters otherwise. Markup separates the items, so no match of *)
(* the regular expression runs from one item into the next.                *)

\* the characters of [A-Za-z0-9] among those drawn (line 277)
Alnum == {"a", "b", "x"}

\* faulty variant: no string is dropped
UniqueKeepsAll(urls) == urls

\* lines 282-288: the first occurrence of each string, in order
RECURSIVE Unique(_)
Unique(urls) ==
    IF urls = <<>> THEN <<>>
    ELSE LET init == Unique(SubSeq(urls, 1, Len(urls) - 1))
             u == urls[Len(urls)]
         IN IF \E i \in 1..Len(init) : init[i] = u THEN init ELSE Append(init, u)

\* line 269: the selector and startswith agree on the hrefs kept
StartsWithPrefix(href) == href # <<>> /\ Head(href) = ARTICLE_PREFIX

\* [A-Za-z0-9]+ is greedy: the longest run of such characters from i on
RECURSIVE AlnumRun(_, _)
AlnumRun(str, i) ==
    IF i <= Len(str) /\ str[i] \in Alnum THEN <<str[i]>> \o AlnumRun(str, i + 1) ELSE <<>>

\* regex.findall over one string (lines 277-278)
RECURSIVE FindAll(_, _)
FindAll(str, i) ==
    IF i > Len(str) THEN <<>>
    ELSE IF str[i] = ARTICLE_PREFIX /\ AlnumRun(str, i + 1) # <<>>
           THEN <<<<ARTICLE_PREFIX>> \o AlnumRun(str, i + 1)>> \o FindAll(str, i + 1)
           ELSE FindAll(str, i + 1)

\* lines 266-273: nothing is appended when the tree cannot be built
RECURSIVE AnchorPass(_)
AnchorPass(items) ==
    IF items = <<>> THEN <<>>
    ELSE (IF Head(items).kind = "a" /\ StartsWithPrefix(Head(items).str)
            THEN <<Head(items).str>> ELSE <<>>) \o AnchorPass(Tail(items))

\* lines 276-280: the whole page as text, hrefs included
RECURSIVE RegexPass(_)
RegexPass(items) ==
    IF items = <<>> THEN <<>>
    ELSE FindAll(Head(items).str, 1) \o RegexPass(Tail(items))

\* urls before lines 282-288
Collected(page) ==
    (IF page.parses THEN AnchorPass(page.items) ELSE <<>>) \o RegexPass(page.items)

extract_article_urls(page) == Unique(Collected(page))

ExtractArticleUrlsCall ==
    /\ call.fn = "extract_article_urls"
    /\ call.state = "called"
    /\ call' = [call EXCEPT !.state = "returned", !.result = extract_article_urls(call.page)]
    /\ UNCHANGED <<yahoo, comments, run, kw, pc, detail_locals, analyze_locals, observed>>

UrlAQuery == <<ARTICLE_PREFIX, "a", "?", "b">>
TwoUrlText == <<"x", ARTICLE_PREFIX, "b", WS, ARTICLE_PREFIX, "a">>
PageStrings == {UrlA, UrlB, UrlAQuery, <<ARTICLE_PREFIX>>, UrlOther, TwoUrlText,
                <<ARTICLE_PREFIX, "a", "b">>}
PageItems == { [kind |-> k, str |-> t] : k \in {"a", "text"}, t \in PageStrings }

MaxPageItems == 3

SearchPages ==
    { [parses |-> ok, items |-> its] :
        ok \in BOOLEAN, its \in UNION { [1..k -> PageItems] : k \in 0..MaxPageItems } }

InitExtract ==
    /\ yahoo = <<>> /\ comments = <<CommentsHeader>>
    /\ run = 1 /\ kw = 1 /\ pc = "discover"
    /\ InitLocals
    /\ \E page \in SearchPages :
          call = [fn |-> "extract_article_urls", page |-> page, state |-> "called", result |-> <<>>]

NextExtract == ExtractArticleUrlsCall

SpecExtract == InitExtract /\ [][NextExtract]_vars

\* u is the href of an anchor the anchor pass keeps
AnchorFinds(page, u) ==
    /\ page.parses
    /\ \E k \in 1..Len(page.items) : /\ page.items[k].kind = "a"
                                     /\ page.items[k].str = u
                                     /\ Head(u) = ARTICLE_PREFIX

\* u is a match of the regular expression somewhere in the page
RegexFinds(page, u) ==
    \E k \in 1..Len(page.items) :
      LET str == page.items[k].str
      IN \E i \in 1..Len(str), j \in 1..Len(str) :
           /\ i < j
           /\ str[i] = ARTICLE_PREFIX
           /\ \A m \in (i + 1)..j : str[m] \in Alnum
           /\ j = Len(str) \/ str[j + 1] \notin Alnum
           /\ u = SubSeq(str, i, j)

FirstSeen(urls, u) == CHOOSE i \in 1..Len(urls) : urls[i] = u /\ \A m \in 1..(i - 1) : urls[m] # u

\* C17: extract_article_urls returns the strings the anchor pass or the
\* regular-expression pass finds, each once, in the order in which they are
\* first seen (anchors, then matches); it returns the empty list when
\* neither pass finds one, and it always returns.
C17_ExtractArticleUrls ==
    (call.fn = "extract_article_urls" /\ call.state = "returned") =>
      LET page == call.page
          result == call.result
          Found == { u \in { page.items[k].str : k \in 1..Len(page.items) }
                           \cup { <<ARTICLE_PREFIX, c>> : c \in Alnum }
                           \cup { <<ARTICLE_PREFIX, c, d>> : c, d \in Alnum } :
                       AnchorFinds(page, u) \/ RegexFinds(page, u) }
      IN /\ { result[i] : i \in 1..Len(result) } = Found
         /\ \A i, j \in 1..Len(result) : result[i] = result[j] => i = j
         /\ \A i, j \in 1..Len(result) :
               i < j => FirstSeen(Collected(page), result[i]) < FirstSeen(Collected(page), result[j])
         /\ Found = {} => result = <<>>

\* an anchor whose href carries a query, the same article as plain text and
\* a second article: the href, its match and the other article, each once
C17_Witness ==
    /\ call.fn = "extract_article_urls" /\ call.state = "returned"
    /\ call.page.parses
    /\ call.page.items = << [kind |-> "text", str |-> TwoUrlText],
                            [kind |-> "a", str |-> UrlAQuery],
                            [kind |-> "a", str |-> UrlA] >>
    /\ call.result = <<UrlAQuery, UrlA, UrlB>>

----------------------------------------------------------------------------
(* A run whose search page may fail to load: C18 *)

\* line 380: driver.get(search_url) raises (the page load times out, the
\* host cannot be reached). Neither get_yahoo_news_with_selenium nor the
\* keyword loop of main() (lines 895-899) catches it: the run ends there.
SearchRaises ==
    /\ pc = "discover"
    /\ pc' = "aborted"
    /\ log' = [step |-> "aborted", kw |-> kw]
    /\ UNCHANGED <<call, sheets, run, kw, detail_locals, analyze_locals, body_fetches,
                   comment_fetches, unwritten>>

\* main() is started again after a run that ended in the exception
StartRunAfterAbort ==
    /\ pc = "aborted"
    /\ run < MaxRuns
    /\ run' = run + 1
    /\ kw' = 1
    /\ pc' = "discover"
    /\ log' = [step |-> "start"]
    /\ UNCHANGED <<call, sheets, detail_locals, analyze_locals, body_fetches, comment_fetches, unwritten>>

NextRun ==
    \/ Next
    \/ SearchRaises
    \/ StartRunAfterAbort

SpecRun == Init /\ [][NextRun]_vars

\* C18: a run goes through every keyword and every row, whatever the pages
\* and the classifier answer, and ends normally: discovery moves from one
\* keyword to the next and hands over to the detail pass after the last
\* one, the detail pass moves from one row to the next and ends after the
\* last one, and no row has more than MAX_BODY_PAGES body fetches or more
\* than MAX_COMMENT_PAGES comment fetches.
C18_RunCompletes ==
    [][ /\ pc = "discover" =>
              /\ pc' \in {"discover", "details"}
              /\ pc' = "discover" => kw' = kw + 1
              /\ pc' = "details" => kw = NKeywords
        /\ pc \in {"row", "body", "comments"} =>
              /\ pc' \in {"row", "body", "comments", "analyze"}
              /\ pc' # "analyze" => idx' \in {idx, idx + 1}
              /\ pc' = "analyze" => idx = Len(values) + 1
        /\ pc = "details" => pc' \in {"row", "analyze"}
        /\ pc \in {"analyze", "dispatch"} => pc' \in {"dispatch", "done"}
        /\ body_fetches' <= MAX_BODY_PAGES
        /\ comment_fetches' <= MAX_COMMENT_PAGES ]_vars

\* a row of ten body pages and ten comment pages has ten fetches of each
FetchBounds ==
    /\ body_fetches <= MAX_BODY_PAGES
    /\ comment_fetches <= MAX_COMMENT_PAGES

----------------------------------------------------------------------------
(* The gate of the body fetch: C19 *)

\* C19: the body fetch of a row is skipped exactly when body page 1 of the
\* row holds text other than the sentinel; a row whose body page 1 is empty
\* or holds the sentinel enters the body loop.
C19_BodyFetchGate ==
    log.step = "row" => ((pc = "comments") <=> HoldsBody(values[log.row]))

----------------------------------------------------------------------------
(* Batching: C20 *)

\* lines 713-724: the blocks of the prompt for a batch, each with the number
\* i of its ARTICLE i lines and the row whose body it holds
ArticleBlocks(batch) ==
    LET n == IF Len(batch) > GEMINI_MAX_BATCH_SIZE THEN GEMINI_MAX_BATCH_SIZE ELSE Len(batch)
    IN [k \in 1..n |-> [index |-> k - 1, row_index |-> batch[k].row_index]]

\* C20: the batches are the consecutive runs of GEMINI_MAX_BATCH_SIZE targets,
\* the last one possibly shorter, in the order of the targets: the first
\* begins at the first target, each next one where the one before ended,
\* and the last ends at the last target; the prompt numbers the text of a
\* target with its position in the batch, counted from 0, and a response
\* entry with that number is written to the row of that target.
C20_Batching ==
    [][ /\ log'.step = "collect" => batch_start' = 0
        /\ log'.step \in {"quota", "retry", "abandoned", "reconciled"} =>
             LET batch == log'.batch
                 start == log'.batch_start
                 blocks == ArticleBlocks(batch)
             IN /\ start = batch_start
                /\ start % GEMINI_MAX_BATCH_SIZE = 0
                /\ Len(batch) \in 1..GEMINI_MAX_BATCH_SIZE
                /\ start + Len(batch) <= Len(targets)
                /\ \A k \in 1..Len(batch) : batch[k] = targets[start + k]
                /\ Len(batch) < GEMINI_MAX_BATCH_SIZE => start + Len(batch) = Len(targets)
                /\ log'.step = "retry" => batch_start' = start
                /\ log'.step \in {"abandoned", "reconciled"} =>
                      IF start + Len(batch) < Len(targets)
                        THEN pc' = "dispatch" /\ batch_start' = start + Len(batch)
                        ELSE pc' = "done"
                /\ Len(blocks) = Len(batch)
                /\ \A k \in 1..Len(batch) :
                      /\ blocks[k].row_index = targets[start + k].row_index
                      /\ blocks[k].index = k - 1
                      /\ (log'.step = "reconciled" /\ log'.all_indexed) =>
                            (targets[start + k].row_index \in log'.written
                               <=> blocks[k].index \in log'.indices) ]_vars

\* the third batch of five targets holds the fifth alone, sent as ARTICLE 0,
\* and the response entry of index 0 has been written to its row
C20_Witness ==
    /\ log.step = "reconciled"
    /\ log.batch_start = 2 * GEMINI_MAX_BATCH_SIZE
    /\ log.batch = <<[row_index |-> 5, url |-> to_str_safe(yahoo[5].url)]>>
    /\ log.indices = {0}
    /\ log.written = {5}
    /\ pc = "done"

----------------------------------------------------------------------------
(* Correlation by index: C21 *)

\* C21: the rows written for a batch are exactly the targets at the local
\* positions that some entry of the response carries as its index; an entry
\* whose index is missing or malformed writes no row and takes no write away
\* from the entries that carry one.
C21_IndexCorrelation ==
    [][ log'.step = "reconciled" => log'.written = RowsAt(log'.batch, log'.indices) ]_vars

----------------------------------------------------------------------------
(* Runs over two fetched rows, with entries that lack fields: C22 *)

NoFields == [c \in 1..5 |-> Absent]

\* entries with every field, without the first, without any, and with a
\* blank second field
FieldEntries ==
    { Entry(IntIndex(0), AllFields),
      Entry(IntIndex(1), [AllFields EXCEPT ![1] = Absent]),
      Entry(IntIndex(1), NoFields),
      Entry(IntIndex(0), [AllFields EXCEPT ![2] = Present(EMPTY)]) }

FieldResponses ==
    { [kind |-> "list", items |-> l] :
        l \in UNION { [1..n -> FieldEntries] : n \in 0..MaxItems } }

InitFields ==
    /\ yahoo = <<FetchedRow(UrlA), FetchedRow(UrlB)>>
    /\ comments = <<CommentsHeader>>
    /\ run = 1 /\ kw = NKeywords /\ pc = "details"
    /\ InitLocals
    /\ call = NoCall

NextFields ==
    \/ write_news_list_to_source(<<>>)
    \/ FetchDetailsStart
    \/ RowBegin
    \/ \E n \in CommentCounts(page_idx) : FetchCommentsPage(n)
    \/ AnalyzeStart
    \/ \E resp \in FieldResponses : Dispatch(resp)
    \/ StartRun

SpecFields == InitFields /\ [][NextFields]_vars

\* the entry of the response that is filed under local position p: the last
\* one that carries p
FiledAt(resp, p, k) ==
    /\ resp.items[k].isdict /\ resp.items[k].index = IntIndex(p)
    /\ \A m \in (k + 1)..Len(resp.items) : resp.items[m].index # IntIndex(p)

\* C22: a classification write replaces the five cells P..T of one row and
\* nothing else of it; a cell whose field the entry lacks receives "N/A", a
\* cell whose field the entry has receives that value; a row written from an
\* entry whose fields are missing or non-blank has five non-blank cells and
\* is no target when the targets are collected next.
C22_ClassificationWrite ==
    [][ /\ \A resp \in FieldResponses : Dispatch(resp) =>
              \A j \in 1..Len(yahoo) :
                IF j \in log'.written
                  THEN /\ [yahoo'[j] EXCEPT !.cls = yahoo[j].cls] = yahoo[j]
                       /\ \E p \in 0..(Len(log'.batch) - 1), k \in 1..Len(resp.items) :
                            /\ log'.batch[p + 1].row_index = j
                            /\ FiledAt(resp, p, k)
                            /\ \A c \in 1..5 :
                                 yahoo'[j].cls[c] =
                                   IF resp.items[k].fields[c].present
                                     THEN resp.items[k].fields[c].val
                                     ELSE NOT_AVAILABLE
                  ELSE yahoo'[j] = yahoo[j]
        /\ log'.step = "collect" =>
              \A j \in 1..Len(yahoo) :
                (\A c \in 1..5 : yahoo[j].cls[c] \in {NOT_AVAILABLE, <<"v">>})
                   => \A k \in 1..Len(targets') : targets'[k].row_index # j ]_vars

\* the second run collects its targets: row 2, written in the first run from
\* an entry without any field, holds "N/A" five times and is no target; row 1,
\* which no entry indexed, is one
C22_Witness ==
    /\ run = 2
    /\ log.step = "collect"
    /\ yahoo[2].cls = [c \in 1..5 |-> NOT_AVAILABLE]
    /\ yahoo[1].cls = EmptyCls
    /\ targets = <<[row_index |-> 1, url |-> to_str_safe(yahoo[1].url)]>>

----------------------------------------------------------------------------
(* The refresh of the comments: C23 *)

\* C23: in every run the detail pass takes the rows one after the other and
\* every row with an article URL, whatever its body cells hold, goes through
\* the comment loop; the step that ends the loop writes the count into the
\* row and a record for the URL of the row into the comment table, and that
\* record holds the count written into the row.
C23_CommentsRefreshed ==
    [][ /\ log'.step = "details" => (pc' = "row" => idx' = 1)
        /\ (pc = "row" /\ idx <= Len(values) /\ IsArticleUrl(to_str_safe(values[idx].url))) =>
              /\ log'.step = "row" /\ log'.row = idx
              /\ pc' \in {"body", "comments"} /\ idx' = idx
        /\ pc = "body" => (pc' \in {"body", "comments"} /\ idx' = idx)
        /\ pc = "comments" =>
              \/ pc' = "comments" /\ idx' = idx /\ yahoo' = yahoo /\ comments' = comments
              \/ /\ log'.step = "comments_done" /\ log'.row = idx
                 /\ pc' = "row" /\ idx' = idx + 1
                 /\ yahoo'[idx].count = <<all_comments'>>
                 /\ \E c \in 1..Len(comments') :
                       /\ comments'[c].url = to_str_safe(values[idx].url)
                       /\ comments'[c].count = yahoo'[idx].count
                       /\ comments'[c].pages = page_strings'
        /\ log'.step = "details_end" => idx = Len(values) + 1 ]_vars

\* in the second run a row whose body page 1 holds the sentinel has had its
\* count written and its record, which the first run appended, replaced
C23_Witness ==
    /\ run = 2
    /\ log.step = "comments_done"
    /\ ~log.appended
    /\ yahoo[log.row].body[1] = BODY_UNAVAILABLE
    /\ yahoo[log.row].count = <<1>>
    /\ \E c \in 1..Len(comments) :
          comments[c].url = log.url /\ comments[c].count = <<1>> /\ c = log.at

----------------------------------------------------------------------------
(* The frame of the detail pass and of the classification pass: C24 *)

\* columns A..D of a row
Metadata(row) == <<row.url, row.title, row.posted, row.source>>

\* C24: a step of the detail pass leaves the number of rows, the columns A..D
\* and the columns P..T of every row as they are; a step of the
\* classification pass leaves the number of rows and the columns A..O of
\* every row as they are.
C24_LaterPhasesFrame ==
    [][ /\ pc \in {"details", "row", "body", "comments"} =>
              /\ Len(yahoo') = Len(yahoo)
              /\ \A j \in 1..Len(yahoo) :
                    /\ Metadata(yahoo'[j]) = Metadata(yahoo[j])
                    /\ yahoo'[j].cls = yahoo[j].cls
        /\ pc \in {"analyze", "dispatch"} =>
              /\ Len(yahoo') = Len(yahoo)
              /\ \A j \in 1..Len(yahoo) :
                    /\ Metadata(yahoo'[j]) = Metadata(yahoo[j])
                    /\ yahoo'[j].body = yahoo[j].body
                    /\ yahoo'[j].count = yahoo[j].count ]_vars

\* a row found in this run has had its body, its count and its five
\* classification cells written, and holds the metadata of its discovery
C24_Witness ==
    /\ run = 1
    /\ log.step = "reconciled"
    /\ \E j \in log.written :
          /\ log.before[j].cls = EmptyCls
          /\ yahoo[j] = [FreshRow(UrlA) EXCEPT !.body = [EmptyBody EXCEPT ![1] = TEXT],
                                               !.count = <<1>>,
                                               !.cls = [c \in 1..5 |-> <<"v">>]]

----------------------------------------------------------------------------
(* The count and the rendered blocks: C25 *)

\* C25: the count written for a row, in column O and in the comment record,
\* is the number of comments enumerated in the page blocks of that record.
C25_CountMatchesBlocks ==
    log.step = "comments_done" =>
      /\ yahoo[log.row].count = <<SumBlocks(page_strings, MAX_COMMENT_PAGES)>>
      /\ \E c \in 1..Len(comments) :
            /\ comments[c].url = log.url
            /\ comments[c].pages = page_strings
            /\ comments[c].count = <<SumBlocks(comments[c].pages, MAX_COMMENT_PAGES)>>

----------------------------------------------------------------------------
(* The cached row of an appended comment record: C26 *)

\* C26: after the step that appends a comment record, comments_url_to_row
\* holds for the URL of the record the row at which the record stands in
\* the comment table.
C26_CachedRowOfAppend ==
    (log.step = "comments_done" /\ log.appended) =>
      /\ log.url \in DOMAIN comments_url_to_row
      /\ comments_url_to_row[log.url] = log.at
      /\ comments_url_to_row[log.url] <= Len(comments)
      /\ comments[comments_url_to_row[log.url]].url = log.url

====
